---------------------------- MODULE Spec2Model ----------------------------
(***************************************************************************)
(* A model of the Picolin virtual machine (src/vm.h): the loader, the      *)
(* fetch-decode-execute loop of vm_execute with one action per opcode,     *)
(* the vector sub-heap, and the memory.dump snapshot written by            *)
(* OP_SAVE_FILE and read by OP_LOAD_FILE.                                  *)
(*                                                                         *)
(* Values are C doubles.  A double is modelled by its IEEE-754 binary64    *)
(* fields [s, e, f]: sign bit, 11-bit biased exponent, and the 52-bit      *)
(* fraction as four 13-bit limbs (least significant first).  Arithmetic    *)
(* is exact on unbounded naturals (limb sequences) followed by one         *)
(* round-to-nearest-even, which is what the hardware does.                 *)
(***************************************************************************)
EXTENDS Integers, Sequences, FiniteSets, TLC

(***************************************************************************)
(* Program constants (src/vm.h:6-10) and the OpCode enum (src/vm.h:13-35). *)
(***************************************************************************)
STACK_SIZE == 1024
GLOBAL_SIZE == 256
MAX_PROGRAM_SIZE == 4096
MEMORY_SIZE == 1024
MAX_VECTORS == 128

OP_PUSH == 0
OP_ADD == 1
OP_SUB == 2
OP_MUL == 3
OP_DIV == 4
OP_PRINT == 5
OP_STORE == 6
OP_LOAD == 7
OP_VECTOR == 8
OP_DOT == 9
OP_RELU == 10
OP_GT == 11
OP_LT == 12
OP_EQ == 13
OP_JUMP_IF_FALSE == 14
OP_JUMP == 15
OP_RAND == 16
OP_INPUT == 17
OP_SAVE_FILE == 18
OP_LOAD_FILE == 19
OP_HALT == 20

(***************************************************************************)
(* Unbounded naturals: sequences of limbs in base 2^13, least significant  *)
(* limb first, no leading zero limb; <<>> is zero.                         *)
(***************************************************************************)
LimbBits == 13
LimbBase == 2^LimbBits

BLimb(a, i) == IF i <= Len(a) THEN a[i] ELSE 0

MaxOf(S) == CHOOSE m \in S : \A j \in S : j <= m

\* strip the leading zero limbs
BNorm(a) ==
    LET nz == {i \in 1..Len(a) : a[i] # 0}
    IN  IF a = <<>> \/ nz = {} THEN <<>> ELSE SubSeq(a, 1, MaxOf(nz))

\* -1, 0, 1 as a < b, a = b, a > b
BCmp(a, b) ==
    LET diff == {i \in 1..Len(a) : a[i] # BLimb(b, i)}
    IN  IF Len(a) # Len(b) THEN (IF Len(a) < Len(b) THEN -1 ELSE 1)
        ELSE IF diff = {} THEN 0
        ELSE IF a[MaxOf(diff)] < b[MaxOf(diff)] THEN -1 ELSE 1

\* a + b.  The carry into limb i: some lower limb j overflows and every limb
\* between j and i is full.
BAdd(a, b) ==
    LET n     == IF Len(a) > Len(b) THEN Len(a) ELSE Len(b)
        s(i)  == BLimb(a, i) + BLimb(b, i)
        cy(i) == IF \E j \in 1..(i - 1) :
                        /\ s(j) >= LimbBase
                        /\ \A k \in (j + 1)..(i - 1) : s(k) = LimbBase - 1
                 THEN 1 ELSE 0
    IN  IF a = <<>> THEN b
        ELSE IF b = <<>> THEN a
        ELSE BNorm([i \in 1..(n + 1) |-> (s(i) + cy(i)) % LimbBase])

\* a - b, for a >= b.  The borrow into limb i: some lower limb j is short
\* and every limb between j and i is level.
BSub(a, b) ==
    LET t(i)  == a[i] - BLimb(b, i)
        bw(i) == IF \E j \in 1..(i - 1) :
                        /\ t(j) < 0
                        /\ \A k \in (j + 1)..(i - 1) : t(k) = 0
                 THEN 1 ELSE 0
    IN  IF a = <<>> \/ b = <<>> THEN a
        ELSE BNorm([i \in 1..Len(a) |-> (t(i) - bw(i)) % LimbBase])

BShlLimbs(a, m) == IF a = <<>> THEN a ELSE [i \in 1..m |-> 0] \o a

\* a * k, for 0 <= k < LimbBase
BMulSmall(a, k) ==
    IF a = <<>> \/ k = 0 THEN <<>>
    ELSE BAdd(BNorm([i \in 1..Len(a) |-> (a[i] * k) % LimbBase]),
              BShlLimbs(BNorm([i \in 1..Len(a) |-> (a[i] * k) \div LimbBase]), 1))

RECURSIVE BMulAcc(_, _, _, _)
\* acc * LimbBase^i + a * (the low i limbs of b)
BMulAcc(a, b, i, acc) ==
    IF i = 0 \/ Len(acc) < 0 THEN acc
    ELSE BMulAcc(a, b, i - 1, BAdd(BMulSmall(a, b[i]), BShlLimbs(acc, 1)))

BMul(a, b) ==
    IF a = <<>> \/ b = <<>> THEN <<>> ELSE BMulAcc(a, b, Len(b), <<>>)

\* a * 2^n
BShl(a, n) ==
    IF a = <<>> THEN a
    ELSE BShlLimbs(BMulSmall(a, 2^(n % LimbBits)), n \div LimbBits)

\* a \div 2^n
BShr(a, n) ==
    LET k == n \div LimbBits
        r == n % LimbBits
    IN  IF a = <<>> THEN a
        ELSE BNorm([i \in 1..(Len(a) - k) |->
                 (a[i + k] \div 2^r) + (BLimb(a, i + k + 1) % 2^r) * 2^(LimbBits - r)])

\* a mod 2^n
BLow(a, n) ==
    LET k == n \div LimbBits
    IN  IF k >= Len(a) THEN a
        ELSE BNorm([i \in 1..(k + 1) |->
                      IF i <= k THEN a[i] ELSE a[i] % 2^(n % LimbBits)])

BitLenSmall(x) ==
    IF x = 0 THEN 0
    ELSE CHOOSE w \in 1..LimbBits : 2^(w - 1) <= x /\ x < 2^w

BBitLen(a) ==
    IF a = <<>> THEN 0 ELSE LimbBits * (Len(a) - 1) + BitLenSmall(a[Len(a)])

BOdd(a) == a # <<>> /\ a[1] % 2 = 1

\* for 0 <= n < 2^31
BFromNat(n) ==
    BNorm(<<n % LimbBase, (n \div LimbBase) % LimbBase,
            n \div (LimbBase * LimbBase)>>)

\* for a < 2^31
BToNat(a) ==
    BLimb(a, 1) + LimbBase * BLimb(a, 2) + LimbBase * LimbBase * BLimb(a, 3)

\* t with bit added when (t + 2^bit) * d still fits in R
DigitBit(R, d, t, bit) ==
    IF BCmp(BMulSmall(d, t + 2^bit), R) <= 0 THEN t + 2^bit ELSE t

RECURSIVE BDigit(_, _, _, _)
\* the largest digit t + k, k < 2^(bit + 1), with (t + k) * d <= R
BDigit(R, d, bit, t) ==
    IF bit < 0 \/ t >= LimbBase THEN t
    ELSE BDigit(R, d, bit - 1, DigitBit(R, d, t, bit))

RECURSIVE BDivStep(_, _, _, _, _)
BDivNext(n, d, i, R1, Q, t) ==
    IF t < 0 THEN [q |-> Q, r |-> R1]
    ELSE BDivStep(n, d, i - 1, BSub(R1, BMulSmall(d, t)), <<t>> \o Q)

BDivTry(n, d, i, R1, Q) ==
    IF R1 = <<>> THEN BDivStep(n, d, i - 1, R1, <<0>> \o Q)
    ELSE BDivNext(n, d, i, R1, Q, BDigit(R1, d, LimbBits - 1, 0))

\* schoolbook long division, from limb i of n down to limb 1, with the
\* remainder R < d and the quotient limbs Q found so far
BDivStep(n, d, i, R, Q) ==
    IF BCmp(R, d) >= 0 \/ Len(Q) < 0 \/ i = 0 THEN [q |-> Q, r |-> R]
    ELSE BDivTry(n, d, i, BNorm(<<n[i]>> \o R), Q)

NormQuotient(dm) == [q |-> BNorm(dm.q), r |-> dm.r]

\* quotient and remainder of n by d, for d > 0.  The leading Len(d) - 1 limbs
\* of n are below d, so the division starts with them as the remainder.
BDivMod(n, d) ==
    IF Len(n) < Len(d) THEN [q |-> <<>>, r |-> n]
    ELSE NormQuotient(BDivStep(n, d, Len(n) - Len(d) + 1,
                               SubSeq(n, Len(n) - Len(d) + 2, Len(n)), <<>>))

(***************************************************************************)
(* C doubles (IEEE-754 binary64, round to nearest even).                   *)
(***************************************************************************)
Zero4 == <<0, 0, 0, 0>>
Hidden == <<0, 0, 0, 0, 1>>

DZero(s) == [s |-> s, e |-> 0, f |-> Zero4]
DInf(s) == [s |-> s, e |-> 2047, f |-> Zero4]
\* the NaN an invalid operation produces (x86: sign set, quiet bit set)
DefaultNaN == [s |-> 1, e |-> 2047, f |-> <<0, 0, 0, 4096>>]

DIsNaN(d) == d.e = 2047 /\ d.f # Zero4
DIsInf(d) == d.e = 2047 /\ d.f = Zero4
DIsZero(d) == d.e = 0 /\ d.f = Zero4
Quiet(d) ==
    IF (d.f[4] \div 4096) % 2 = 1 THEN d ELSE [d EXCEPT !.f[4] = @ + 4096]

\* value of a finite double = Sig(d) * 2^Exp2(d)
Sig(d) == IF d.e = 0 THEN BNorm(d.f) ELSE d.f \o <<1>>
Exp2(d) == IF d.e = 0 THEN -1074 ELSE d.e - 1075

Frac4(m) == [i \in 1..4 |-> BLimb(m, i)]

\* The double nearest to (M + t) * 2^E, M > 0, 0 <= t < 1, t > 0 iff sticky
\* (ties to even; overflow gives infinity, underflow a subnormal or zero).
\* Quantum is the exponent q of the result's last place; the result is
\* M * 2^E in units of 2^q, rounded.
Quantum(M, E) ==
    LET p == E + BBitLen(M) - 1
    IN  IF p - 52 > -1074 THEN p - 52 ELSE -1074

Truncated(M, n) == IF n <= 0 THEN BShl(M, -n) ELSE BShr(M, n)

\* the n bits dropped from M against half a unit: -1, 0, 1
Dropped(M, n) ==
    IF n <= 0 THEN -1 ELSE BCmp(BLow(M, n), BShl(<<1>>, n - 1))

PackBits(s, q, M3) ==
    IF BBitLen(M3) < 53 THEN [s |-> s, e |-> 0, f |-> Frac4(M3)]
    ELSE IF q + 1075 >= 2047 THEN DInf(s)
    ELSE [s |-> s, e |-> q + 1075, f |-> Frac4(M3)]

Carry(s, q, M2) ==
    IF BBitLen(M2) = 54 THEN PackBits(s, q + 1, BShr(M2, 1))
    ELSE PackBits(s, q, M2)

RoundUp(s, q, M1, c, sticky) ==
    Carry(s, q, IF c > 0 \/ (c = 0 /\ (sticky \/ BOdd(M1)))
                THEN BAdd(M1, <<1>>) ELSE M1)

RoundTo(s, M, E, sticky, q) ==
    RoundUp(s, q, Truncated(M, q - E), Dropped(M, q - E), sticky)

RoundPack(s, M, E, sticky) ==
    IF M = <<>> THEN DZero(s) ELSE RoundTo(s, M, E, sticky, Quantum(M, E))

Rounded(x) == RoundPack(x.s, x.M, x.E, x.sticky)

\* |hi| + |lo| or |hi| - |lo| where lo is below 1/16 of hi's last place:
\* lo only decides the rounding (three guard bits and a sticky bit).
SumFar(hi, lo) ==
    IF DIsZero(lo)
    THEN [s |-> hi.s, M |-> Sig(hi), E |-> Exp2(hi), sticky |-> FALSE]
    ELSE [s |-> hi.s,
          M |-> IF hi.s = lo.s THEN BShl(Sig(hi), 3)
                ELSE BSub(BShl(Sig(hi), 3), <<1>>),
          E |-> Exp2(hi) - 3, sticky |-> TRUE]

\* the exact sum of two values A * 2^E and B * 2^E with signs sa and sb
SumAligned(sa, sb, A, B, E) ==
    IF sa = sb THEN [s |-> sa, M |-> BAdd(A, B), E |-> E, sticky |-> FALSE]
    ELSE IF BCmp(A, B) = 0 THEN [s |-> 0, M |-> <<>>, E |-> E, sticky |-> FALSE]
    ELSE IF BCmp(A, B) > 0
    THEN [s |-> sa, M |-> BSub(A, B), E |-> E, sticky |-> FALSE]
    ELSE [s |-> sb, M |-> BSub(B, A), E |-> E, sticky |-> FALSE]

SumNear(a, b, E) ==
    SumAligned(a.s, b.s, BShl(Sig(a), Exp2(a) - E), BShl(Sig(b), Exp2(b) - E), E)

DAddFinite(a, b) ==
    Rounded(IF Exp2(a) - Exp2(b) > 56 THEN SumFar(a, b)
            ELSE IF Exp2(b) - Exp2(a) > 56 THEN SumFar(b, a)
            ELSE SumNear(a, b, IF Exp2(a) < Exp2(b) THEN Exp2(a) ELSE Exp2(b)))

\* a + b
DAdd(a, b) ==
    IF DIsNaN(a) THEN Quiet(a)
    ELSE IF DIsNaN(b) THEN Quiet(b)
    ELSE IF DIsInf(a) THEN (IF DIsInf(b) /\ a.s # b.s THEN DefaultNaN ELSE a)
    ELSE IF DIsInf(b) THEN b
    ELSE DAddFinite(a, b)

DNeg(d) == [d EXCEPT !.s = 1 - @]

\* a - b
DSub(a, b) ==
    IF DIsNaN(a) THEN Quiet(a)
    ELSE IF DIsNaN(b) THEN Quiet(b)
    ELSE DAdd(a, DNeg(b))

\* a * b
DMul(a, b) ==
    LET s == (a.s + b.s) % 2
    IN  IF DIsNaN(a) THEN Quiet(a)
        ELSE IF DIsNaN(b) THEN Quiet(b)
        ELSE IF DIsInf(a) \/ DIsInf(b)
             THEN (IF DIsZero(a) \/ DIsZero(b) THEN DefaultNaN ELSE DInf(s))
        ELSE IF DIsZero(a) \/ DIsZero(b) THEN DZero(s)
        ELSE RoundPack(s, BMul(Sig(a), Sig(b)), Exp2(a) + Exp2(b), FALSE)

QuotientRounded(s, E, dm) == RoundPack(s, dm.q, E, dm.r # <<>>)

\* Sig(a) * 2^k / Sig(b) has 57 or 58 bits
QuotientAt(s, a, b, k) ==
    QuotientRounded(s, Exp2(a) - Exp2(b) - k, BDivMod(BShl(Sig(a), k), Sig(b)))

\* a / b
DDiv(a, b) ==
    LET s == (a.s + b.s) % 2
    IN  IF DIsNaN(a) THEN Quiet(a)
        ELSE IF DIsNaN(b) THEN Quiet(b)
        ELSE IF DIsInf(a) THEN (IF DIsInf(b) THEN DefaultNaN ELSE DInf(s))
        ELSE IF DIsInf(b) THEN DZero(s)
        ELSE IF DIsZero(b) THEN (IF DIsZero(a) THEN DefaultNaN ELSE DInf(s))
        ELSE IF DIsZero(a) THEN DZero(s)
        ELSE QuotientAt(s, a, b, 56 + BBitLen(Sig(b)) - BBitLen(Sig(a)))

MagCmp(a, b) ==
    IF a.e # b.e THEN (IF a.e < b.e THEN -1 ELSE 1) ELSE BCmp(a.f, b.f)

\* a < b, a > b, a == b as C compares doubles
DLt(a, b) ==
    /\ ~DIsNaN(a) /\ ~DIsNaN(b)
    /\ ~(DIsZero(a) /\ DIsZero(b))
    /\ IF a.s # b.s THEN a.s = 1
       ELSE IF a.s = 0 THEN MagCmp(a, b) < 0 ELSE MagCmp(a, b) > 0
DGt(a, b) == DLt(b, a)
DEq(a, b) ==
    /\ ~DIsNaN(a) /\ ~DIsNaN(b)
    /\ (DIsZero(a) /\ DIsZero(b)) \/ a = b

INT_MAX == 2147483647
INT_MIN == -2147483647 - 1

\* (double)n for an int n: exact, the bits of |n| below its leading one are
\* the top bits of the fraction
DFromInt(n) ==
    LET a    == IF n < 0 THEN -n ELSE n
        w    == CHOOSE k \in 1..31 : 2^(k - 1) <= a /\ (k = 31 \/ a < 2^k)
        r    == a - 2^(w - 1)
        d(k) == 52 - (w - 1) - LimbBits * (k - 1)
        L(k) == IF d(k) >= LimbBits THEN 0
                ELSE IF d(k) >= 0 THEN (r % 2^(LimbBits - d(k))) * 2^d(k)
                ELSE (r \div 2^(-d(k))) % LimbBase
    IN  IF n = 0 THEN DZero(0)
        ELSE IF n = INT_MIN THEN [s |-> 1, e |-> 1023 + 31, f |-> Zero4]
        ELSE [s |-> IF n < 0 THEN 1 ELSE 0, e |-> 1023 + w - 1,
              f |-> <<L(1), L(2), L(3), L(4)>>]

\* (int)d: truncation toward zero.  A value that does not fit an int is
\* undefined behaviour (C99 6.3.1.4): the outcomes are what the conversion
\* instruction of the target yields (INT_MIN on x86, saturation or 0 on ARM).
IntCast(d) ==
    LET mag == IF Exp2(d) >= 0 THEN BShl(Sig(d), Exp2(d))
               ELSE BShr(Sig(d), -Exp2(d))
    IN  IF d.e >= 1023 + 32 THEN {INT_MIN, INT_MAX, 0}
        ELSE IF BBitLen(mag) <= 31
             THEN {IF d.s = 1 THEN -BToNat(mag) ELSE BToNat(mag)}
        ELSE IF d.s = 1 /\ BBitLen(BSub(mag, <<1>>)) <= 31 THEN {INT_MIN}
        ELSE {INT_MIN, INT_MAX, 0}

(***************************************************************************)
(* printf("%.15g", d): the text C prints for a double.  The exact value    *)
(* N / D is scaled to a 15-digit integer, rounded half to even, and laid   *)
(* out in fixed or exponent style with the trailing zeros removed.         *)
(***************************************************************************)
RECURSIVE Pow10(_)
Sq10(h, odd) ==
    IF h = <<>> THEN h ELSE IF odd THEN BMulSmall(BMul(h, h), 10) ELSE BMul(h, h)
Pow10(n) == IF n = 0 THEN <<1>> ELSE Sq10(Pow10(n \div 2), n % 2 = 1)

DigitChar == <<"0", "1", "2", "3", "4", "5", "6", "7", "8", "9">>

RECURSIVE DigitText(_)
DigitText(ds) ==
    IF ds = <<>> THEN "" ELSE DigitChar[ds[1] + 1] \o DigitText(Tail(ds))

\* the w decimal digits of x, most significant first, for w <= 8
DecDigits(x, w) == [i \in 1..w |-> (x \div 10^(w - i)) % 10]

WithDen(dm, den) == [q |-> dm.q, r |-> dm.r, den |-> den]
Ratio(num, den) ==
    IF num = <<>> \/ den = <<>> THEN [q |-> <<>>, r |-> <<>>, den |-> den]
    ELSE WithDen(BDivMod(num, den), den)

\* the quotient N * 10^(14 - X) / D as [q, r, den]
Scale15(N, D, X) ==
    IF X <= 14 THEN Ratio(BMul(Pow10(14 - X), N), D)
    ELSE Ratio(N, BMul(Pow10(X - 14), D))

\* the decimal exponent X with 10^X <= N / D < 10^(X + 1), from a guess X0
\* that is at most one off and the 15-digit quotient q0 it gives
DecExp(X0, q0) ==
    IF BCmp(q0, Pow10(15)) >= 0 THEN X0 + 1
    ELSE IF BCmp(q0, Pow10(14)) < 0 THEN X0 - 1
    ELSE X0

StripZeros(ds) ==
    LET nz == {i \in 1..Len(ds) : ds[i] # 0}
    IN  IF nz = {} THEN <<>> ELSE SubSeq(ds, 1, MaxOf(nz))

ExpText(X) ==
    LET a == IF X < 0 THEN -X ELSE X
    IN  (IF X < 0 THEN "e-" ELSE "e+")
        \o DigitText(IF a >= 100 THEN DecDigits(a, 3) ELSE DecDigits(a, 2))

Layout15(X, ds) ==
    LET sig  == StripZeros(ds)
        frac == IF Len(sig) > X + 1 THEN SubSeq(sig, X + 2, Len(sig)) ELSE <<>>
    IN  IF X < -4 \/ X >= 15
        THEN DigitText(<<ds[1]>>)
             \o (IF Len(sig) > 1 THEN "." \o DigitText(Tail(sig)) ELSE "")
             \o ExpText(X)
        ELSE IF X >= 0
        THEN DigitText(SubSeq(ds, 1, X + 1))
             \o (IF frac = <<>> THEN "" ELSE "." \o DigitText(frac))
        ELSE "0." \o DigitText([i \in 1..(-X - 1) |-> 0]) \o DigitText(sig)

LayoutDigits(X, ds) == IF ds = <<>> THEN "" ELSE Layout15(X, ds)

LayoutOf(X, hl) ==
    IF Len(hl.q) < 0 THEN ""
    ELSE LayoutDigits(X, DecDigits(BToNat(hl.q), 7) \o DecDigits(BToNat(hl.r), 8))

\* Q is the 15-digit integer; rounding up may have made it 10^15
FormatDigits(X, Q) ==
    IF Q = <<>> THEN ""
    ELSE IF BCmp(Q, Pow10(15)) >= 0
    THEN Layout15(X + 1, [i \in 1..15 |-> IF i = 1 THEN 1 ELSE 0])
    ELSE LayoutOf(X, BDivMod(Q, BFromNat(100000000)))

\* round the quotient half to even
FormatHalf(X, sc, c) ==
    IF c > 0 \/ (c = 0 /\ BOdd(sc.q)) THEN FormatDigits(X, BAdd(sc.q, <<1>>))
    ELSE FormatDigits(X, sc.q)

FormatRounded(X, sc) ==
    IF sc.q = <<>> THEN ""
    ELSE FormatHalf(X, sc, BCmp(BMulSmall(sc.r, 2), sc.den))

FormatAt(N, D, X) ==
    IF X < -400 THEN "" ELSE FormatRounded(X, Scale15(N, D, X))

FormatGuess(N, D, X0, sc0) ==
    IF sc0.den = <<>> THEN "" ELSE FormatAt(N, D, DecExp(X0, sc0.q))

FormatFrom(N, D, X0) ==
    IF X0 < -400 THEN "" ELSE FormatGuess(N, D, X0, Scale15(N, D, X0))

\* the guards evaluate the arguments before they are passed on
FormatValue(N, D) ==
    IF N = <<>> \/ D = <<>> THEN "0"
    ELSE FormatFrom(N, D, ((BBitLen(N) - BBitLen(D)) * 30103) \div 100000)

Format15g(d) ==
    IF DIsNaN(d) THEN (IF d.s = 1 THEN "-nan" ELSE "nan")
    ELSE IF DIsInf(d) THEN (IF d.s = 1 THEN "-inf" ELSE "inf")
    ELSE IF DIsZero(d) THEN (IF d.s = 1 THEN "-0" ELSE "0")
    ELSE (IF d.s = 1 THEN "-" ELSE "")
         \o (IF Exp2(d) >= 0 THEN FormatValue(BShl(Sig(d), Exp2(d)), <<1>>)
             ELSE FormatValue(Sig(d), BShl(<<1>>, -Exp2(d))))

(***************************************************************************)
(* Operand encoding: memcpy of 4 or 8 code bytes into an int or a double   *)
(* on a little-endian two's-complement machine.                            *)
(***************************************************************************)
\* the 64 bits of a double are bytes 1..8, least significant first: bits
\* 0..51 the fraction, 52..62 the exponent, 63 the sign
DoubleFromBytes(b) ==
    LET lo  == b[1] + 256 * b[2] + 65536 * b[3]
        mid == b[4] + 256 * b[5] + 65536 * b[6]
        hi  == b[7] + 256 * b[8]
    IN  [s |-> hi \div 32768, e |-> (hi \div 16) % 2048,
         f |-> <<lo % 8192,
                 lo \div 8192 + (mid % 4) * 2048,
                 (mid \div 4) % 8192,
                 mid \div 32768 + (hi % 16) * 512>>]

IntFromBytes(b) ==
    b[1] + 256 * b[2] + 65536 * b[3]
         + 16777216 * (IF b[4] >= 128 THEN b[4] - 256 ELSE b[4])

\* the inverse encodings, as the compiler emits operands
BytesOfDouble(d) ==
    LET lo  == d.f[1] + (d.f[2] % 2048) * 8192
        mid == d.f[2] \div 2048 + d.f[3] * 4 + (d.f[4] % 512) * 32768
        hi  == d.f[4] \div 512 + d.e * 16 + d.s * 32768
    IN  <<lo % 256, (lo \div 256) % 256, lo \div 65536,
          mid % 256, (mid \div 256) % 256, mid \div 65536,
          hi % 256, hi \div 256>>

BytesOfInt(n) == [i \in 1..4 |-> (n \div 256^(i - 1)) % 256]

(***************************************************************************)
(* The process: main creates a VM, loads a program file and runs           *)
(* vm_execute.  The VM struct (src/vm.h:44-55) is the variables stack ..   *)
(* code_size; phase is where the process is; out and err are the two       *)
(* output streams; dump is the file memory.dump, which outlives a process. *)
(***************************************************************************)
VARIABLES stack, sp, ip, globals, memory, vectors, next_vector_index,
          next_memory_address, code, code_size,
          phase, exit_code, run, out, err, dump

vars == <<stack, sp, ip, globals, memory, vectors, next_vector_index,
          next_memory_address, code, code_size,
          phase, exit_code, run, out, err, dump>>

\* the processes started one after the other, and the writes to stdout of
\* one process
MaxRuns == 2
MaxOutput == 3

\* how far below the code array a fetch is followed
MaxOob == 8

\* what a read outside the code array may yield (undefined behaviour): a
\* few of the 256 byte values, and a few operand values
OobBytes == {OP_PRINT, OP_JUMP, OP_HALT, 255}
OobInts == {0, -1}
OobDoubles == {DZero(0), DefaultNaN}

ZeroVector == [size |-> 0, address |-> 0]
NoDump == [exists |-> FALSE, ints |-> <<>>, memory |-> <<>>, vectors |-> <<>>]

\* vm_create: every array zeroed, sp = -1
Created ==
    /\ stack' = [i \in 0..(STACK_SIZE - 1) |-> DZero(0)]
    /\ globals' = [i \in 0..(GLOBAL_SIZE - 1) |-> DZero(0)]
    /\ memory' = [i \in 0..(MEMORY_SIZE - 1) |-> DZero(0)]
    /\ vectors' = [i \in 0..(MAX_VECTORS - 1) |-> ZeroVector]
    /\ sp' = -1
    /\ ip' = 0
    /\ next_vector_index' = 0
    /\ next_memory_address' = 0

Init ==
    /\ stack = [i \in 0..(STACK_SIZE - 1) |-> DZero(0)]
    /\ globals = [i \in 0..(GLOBAL_SIZE - 1) |-> DZero(0)]
    /\ memory = [i \in 0..(MEMORY_SIZE - 1) |-> DZero(0)]
    /\ vectors = [i \in 0..(MAX_VECTORS - 1) |-> ZeroVector]
    /\ sp = -1
    /\ ip = 0
    /\ next_vector_index = 0
    /\ next_memory_address = 0
    /\ code = <<>>
    /\ code_size = 0
    /\ phase = "start"
    /\ exit_code = -1
    /\ run = 0
    /\ out = <<>>
    /\ err = <<>>
    /\ dump = NoDump

(***************************************************************************)
(* push, pop and the fetch helpers (src/vm.h:135-185).                     *)
(***************************************************************************)
\* push(vm, v) on stack s with stack pointer p
PushFull(p) == p >= STACK_SIZE - 1
PushSp(p) == IF PushFull(p) THEN p ELSE p + 1
\* a push that on a full stack overwrites the top cell
PushStackOverTop(s, p, v) == [s EXCEPT ![IF PushFull(p) THEN p ELSE p + 1] = v]
PushStack(s, p, v) == IF PushFull(p) THEN s ELSE [s EXCEPT ![p + 1] = v]
PushErr(p) == IF PushFull(p) THEN <<"Stack overflow">> ELSE <<>>

\* a pop that on underflow returns the cell at the bottom of the array
PopStale(p) ==
    IF p < 0 THEN [v |-> stack[0], sp |-> p, err |-> <<"Stack underflow">>]
    ELSE [v |-> stack[p], sp |-> p - 1, err |-> <<>>]

\* pop(vm) with stack pointer p: the value, the new stack pointer, the
\* diagnostic
Pop(p) ==
    IF p < 0 THEN [v |-> DZero(0), sp |-> p, err |-> <<"Stack underflow">>]
    ELSE [v |-> stack[p], sp |-> p - 1, err |-> <<>>]

\* The byte fetch_byte may return.  Below index 0 the read is outside the
\* code array.
FetchByte ==
    IF ip >= code_size THEN {OP_HALT}
    ELSE IF ip >= 0 THEN {code[ip + 1]}
    ELSE IF ip >= -MaxOob THEN OobBytes
    ELSE {}

\* ip + sizeof(T) > code_size, compared as size_t: a negative q wraps to a
\* huge value unless q + w wraps back past zero
FetchFails(q, w) == IF q + w < 0 THEN TRUE ELSE q + w > code_size

\* fetch_int with ip = q: the possible values, with the ip afterwards
FetchInt(q) ==
    IF FetchFails(q, 4)
    THEN {[v |-> 0, ip |-> q, err |-> <<"Cannot fetch int value">>]}
    ELSE IF q >= 0
    THEN {[v |-> IntFromBytes(SubSeq(code, q + 1, q + 4)), ip |-> q + 4,
           err |-> <<>>]}
    ELSE {[v |-> x, ip |-> q + 4, err |-> <<>>] : x \in OobInts}

\* fetch_double with ip = q
FetchDouble(q) ==
    IF FetchFails(q, 8)
    THEN {[v |-> DZero(0), ip |-> q, err |-> <<"Cannot fetch double value">>]}
    ELSE IF q >= 0
    THEN {[v |-> DoubleFromBytes(SubSeq(code, q + 1, q + 8)), ip |-> q + 8,
           err |-> <<>>]}
    ELSE {[v |-> x, ip |-> q + 8, err |-> <<>>] : x \in OobDoubles}

\* the loop of vm_execute is about to fetch opcode op
Decode(op) ==
    /\ phase = "running"
    /\ ip < code_size
    /\ op \in FetchByte

(***************************************************************************)
(* vm_execute (src/vm.h:188-466): one action per case of the switch.       *)
(***************************************************************************)
\* a - b within epsilon of zero on both sides (OP_EQ)
Epsilon == [s |-> 0, e |-> 993, f |-> <<5781, 310, 762, 604>>]
One == [s |-> 0, e |-> 1023, f |-> Zero4]
Flag(c) == IF c THEN One ELSE DZero(0)

GtFlag(a, b) == Flag(DGt(a, b))
LtFlag(a, b) == Flag(DLt(a, b))
EqFlag(a, b) == Flag(DLt(DSub(a, b), Epsilon) /\ DLt(DSub(b, a), Epsilon))

\* pop b, pop a, push F(a, b)
Binary(F(_, _)) ==
    /\ LET b == Pop(sp)
           a == Pop(b.sp)
       IN  /\ stack' = PushStack(stack, a.sp, F(a.v, b.v))
           /\ sp' = PushSp(a.sp)
           /\ err' = b.err \o a.err \o PushErr(a.sp)
    /\ ip' = ip + 1
    /\ UNCHANGED <<globals, memory, vectors, next_vector_index,
                   next_memory_address, code, code_size, phase, exit_code,
                   run, out, dump>>

OpPush ==
    /\ Decode(OP_PUSH)
    /\ \E f \in FetchDouble(ip + 1) :
          /\ ip' = f.ip
          /\ stack' = PushStack(stack, sp, f.v)
          /\ sp' = PushSp(sp)
          /\ err' = f.err \o PushErr(sp)
    /\ UNCHANGED <<globals, memory, vectors, next_vector_index,
                   next_memory_address, code, code_size, phase, exit_code,
                   run, out, dump>>

OpAdd ==
    /\ Decode(OP_ADD)
    /\ Binary(DAdd)

\* a SUB that takes the value popped first as the minuend
TopMinusBeneath(a, b) == DSub(b, a)
OpSubOperandsSwapped ==
    /\ Decode(OP_SUB)
    /\ Binary(TopMinusBeneath)

OpSub ==
    /\ Decode(OP_SUB)
    /\ Binary(DSub)

OpMul ==
    /\ Decode(OP_MUL)
    /\ Binary(DMul)

OpGt ==
    /\ Decode(OP_GT)
    /\ Binary(GtFlag)

OpLt ==
    /\ Decode(OP_LT)
    /\ Binary(LtFlag)

OpEq ==
    /\ Decode(OP_EQ)
    /\ Binary(EqFlag)

\* a divisor test on the bits of b, which -0.0 passes
DivisorIsPlusZero(b) == b = DZero(0)

\* b == 0.0 in OP_DIV
DivisorIsZero(b) == DEq(b, DZero(0))

OpDiv ==
    /\ Decode(OP_DIV)
    /\ LET b == Pop(sp)
           a == Pop(b.sp)
       IN  IF DivisorIsZero(b.v)
           THEN /\ sp' = a.sp
                /\ err' = b.err \o a.err \o <<"Division by zero">>
                /\ phase' = "faulted"
                /\ UNCHANGED stack
           ELSE /\ stack' = PushStack(stack, a.sp, DDiv(a.v, b.v))
                /\ sp' = PushSp(a.sp)
                /\ err' = b.err \o a.err \o PushErr(a.sp)
                /\ UNCHANGED phase
    /\ ip' = ip + 1
    /\ UNCHANGED <<globals, memory, vectors, next_vector_index,
                   next_memory_address, code, code_size, exit_code,
                   run, out, dump>>

\* a PRINT that decrements sp without looking at it
OpPrintUnchecked ==
    /\ Decode(OP_PRINT)
    /\ IF sp >= 0
       THEN /\ Len(out) < MaxOutput
            /\ out' = Append(out, Format15g(stack[sp]))
       ELSE UNCHANGED out
    /\ sp' = sp - 1
    /\ err' = <<>>
    /\ ip' = ip + 1
    /\ UNCHANGED <<stack, globals, memory, vectors, next_vector_index,
                   next_memory_address, code, code_size, phase, exit_code,
                   run, dump>>

\* a PRINT that leaves the printed value on the stack
OpPrintKeepsTop ==
    /\ Decode(OP_PRINT)
    /\ IF sp >= 0
       THEN /\ Len(out) < MaxOutput
            /\ out' = Append(out, Format15g(stack[sp]))
            /\ err' = <<>>
       ELSE /\ err' = <<"Nothing to print">>
            /\ UNCHANGED out
    /\ ip' = ip + 1
    /\ UNCHANGED <<stack, sp, globals, memory, vectors, next_vector_index,
                   next_memory_address, code, code_size, phase, exit_code,
                   run, dump>>

OpPrint ==
    /\ Decode(OP_PRINT)
    /\ IF sp >= 0
       THEN /\ Len(out) < MaxOutput
            /\ out' = Append(out, Format15g(stack[sp]))
            /\ sp' = sp - 1
            /\ err' = <<>>
       ELSE /\ err' = <<"Nothing to print">>
            /\ UNCHANGED <<out, sp>>
    /\ ip' = ip + 1
    /\ UNCHANGED <<stack, globals, memory, vectors, next_vector_index,
                   next_memory_address, code, code_size, phase, exit_code,
                   run, dump>>

\* var_index < 0 || var_index >= GLOBAL_SIZE
BadIndex(i) == i < 0 \/ i >= GLOBAL_SIZE

\* a STORE that pops before it looks at the index
OpStorePopsFirst ==
    /\ Decode(OP_STORE)
    /\ \E f \in FetchInt(ip + 1) :
          /\ ip' = f.ip
          /\ sp' = Pop(sp).sp
          /\ IF BadIndex(f.v)
             THEN /\ err' = f.err \o Pop(sp).err \o <<"Invalid variable index">>
                  /\ phase' = "faulted"
                  /\ UNCHANGED globals
             ELSE /\ globals' = [globals EXCEPT ![f.v] = Pop(sp).v]
                  /\ err' = f.err \o Pop(sp).err
                  /\ UNCHANGED phase
    /\ UNCHANGED <<stack, memory, vectors, next_vector_index,
                   next_memory_address, code, code_size, exit_code,
                   run, out, dump>>

OpStore ==
    /\ Decode(OP_STORE)
    /\ \E f \in FetchInt(ip + 1) :
          /\ ip' = f.ip
          /\ IF BadIndex(f.v)
             THEN /\ err' = f.err \o <<"Invalid variable index">>
                  /\ phase' = "faulted"
                  /\ UNCHANGED <<sp, globals>>
             ELSE /\ globals' = [globals EXCEPT ![f.v] = Pop(sp).v]
                  /\ sp' = Pop(sp).sp
                  /\ err' = f.err \o Pop(sp).err
                  /\ UNCHANGED phase
    /\ UNCHANGED <<stack, memory, vectors, next_vector_index,
                   next_memory_address, code, code_size, exit_code,
                   run, out, dump>>

OpLoad ==
    /\ Decode(OP_LOAD)
    /\ \E f \in FetchInt(ip + 1) :
          /\ ip' = f.ip
          /\ IF BadIndex(f.v)
             THEN /\ err' = f.err \o <<"Invalid variable index">>
                  /\ phase' = "faulted"
                  /\ UNCHANGED <<stack, sp>>
             ELSE /\ stack' = PushStack(stack, sp, globals[f.v])
                  /\ sp' = PushSp(sp)
                  /\ err' = f.err \o PushErr(sp)
                  /\ UNCHANGED phase
    /\ UNCHANGED <<globals, memory, vectors, next_vector_index,
                   next_memory_address, code, code_size, exit_code,
                   run, out, dump>>

OpRelu ==
    /\ Decode(OP_RELU)
    /\ LET x == Pop(sp)
       IN  /\ stack' = PushStack(stack, x.sp,
                                 IF DLt(x.v, DZero(0)) THEN DZero(0) ELSE x.v)
           /\ sp' = PushSp(x.sp)
           /\ err' = x.err \o PushErr(x.sp)
    /\ ip' = ip + 1
    /\ UNCHANGED <<globals, memory, vectors, next_vector_index,
                   next_memory_address, code, code_size, phase, exit_code,
                   run, out, dump>>

\* a pop loop for i = 0 up to n - 1: the top of the stack lands lowest
VectorFillInPopOrder(address, n) ==
    [j \in 0..(MEMORY_SIZE - 1) |->
        IF /\ address <= j /\ j <= address + n - 1
           /\ sp - (j - address) >= 0
        THEN stack[sp - (j - address)]
        ELSE memory[j]]

\* The pop loop of OP_VECTOR, for i = n - 1 down to 0, as far as the stack
\* lasts: memory[address + i] receives the cell n - 1 - i below the top.
VectorFill(address, n) ==
    [j \in 0..(MEMORY_SIZE - 1) |->
        IF /\ address <= j /\ j <= address + n - 1
           /\ sp - (address + n - 1 - j) >= 0
        THEN stack[sp - (address + n - 1 - j)]
        ELSE memory[j]]

\* size checks that let 0, or every size up to MEMORY_SIZE, through
InvalidSizeBelowZero(n) == n < 0 \/ n > MEMORY_SIZE
InvalidSizeAboveOnly(n) == n > MEMORY_SIZE

\* a stack test that lets a vector through with one value missing
NotEnoughValuesButOne(n) == sp + 1 < n - 1

\* the four checks of OP_VECTOR, in the order the code makes them
InvalidSize(n) == n <= 0 \/ n > MEMORY_SIZE
OutOfMemory(n) == next_memory_address + n > MEMORY_SIZE
TooManyVectors == next_vector_index >= MAX_VECTORS
NotEnoughValues(n) == sp + 1 < n

OpVector ==
    /\ Decode(OP_VECTOR)
    /\ \E f \in FetchInt(ip + 1) :
          LET vector_size == f.v
              address     == next_memory_address
          IN  /\ ip' = f.ip
              /\ IF InvalidSize(vector_size)
                 THEN /\ err' = f.err \o <<"Invalid vector size">>
                      /\ phase' = "faulted"
                      /\ UNCHANGED <<stack, sp, memory, vectors,
                                     next_vector_index, next_memory_address>>
                 ELSE IF OutOfMemory(vector_size)
                 THEN /\ err' = f.err \o <<"Out of memory">>
                      /\ phase' = "faulted"
                      /\ UNCHANGED <<stack, sp, memory, vectors,
                                     next_vector_index, next_memory_address>>
                 ELSE IF TooManyVectors
                 THEN /\ err' = f.err \o <<"Too many vectors">>
                      /\ phase' = "faulted"
                      /\ UNCHANGED <<stack, sp, memory, vectors,
                                     next_vector_index, next_memory_address>>
                 ELSE IF NotEnoughValues(vector_size)
                 THEN /\ memory' = VectorFill(address, vector_size)
                      /\ sp' = -1
                      /\ err' = f.err
                                \o <<"Not enough values on stack for vector">>
                      /\ phase' = "faulted"
                      /\ UNCHANGED <<stack, vectors, next_vector_index,
                                     next_memory_address>>
                 ELSE /\ memory' = VectorFill(address, vector_size)
                      /\ vectors' = [vectors EXCEPT ![next_vector_index] =
                                        [size |-> vector_size,
                                         address |-> address]]
                      /\ stack' = PushStack(stack, sp - vector_size,
                                            DFromInt(next_vector_index))
                      /\ sp' = PushSp(sp - vector_size)
                      /\ err' = f.err \o PushErr(sp - vector_size)
                      /\ next_memory_address' =
                             next_memory_address + vector_size
                      /\ next_vector_index' = next_vector_index + 1
                      /\ UNCHANGED phase
    /\ UNCHANGED <<globals, code, code_size, exit_code, run, out, dump>>

RECURSIVE DotLoop(_, _, _, _)
\* the loop of OP_DOT from index i on, dot_product being acc so far
DotLoop(vec1, vec2, i, acc) ==
    IF i >= vec1.size \/ acc.e < 0 THEN acc
    ELSE DotLoop(vec1, vec2, i + 1,
                 DAdd(acc, DMul(memory[vec1.address + i],
                                memory[vec2.address + i])))

\* a loop that starts at the second element
DotProductFromOne(vec1, vec2) == DotLoop(vec1, vec2, 1, DZero(0))

DotProduct(vec1, vec2) == DotLoop(vec1, vec2, 0, DZero(0))

\* a range check that takes the first free slot for a vector
BadPointerPastEnd(ptr) == ptr < 0 \/ ptr > next_vector_index

\* ptr < 0 || ptr >= vm->next_vector_index
BadPointer(ptr) == ptr < 0 \/ ptr >= next_vector_index

OpDot ==
    /\ Decode(OP_DOT)
    /\ LET ptr2_val == Pop(sp)
           ptr1_val == Pop(ptr2_val.sp)
       IN  \E ptr1 \in IntCast(ptr1_val.v), ptr2 \in IntCast(ptr2_val.v) :
              IF BadPointer(ptr1) \/ BadPointer(ptr2)
              THEN /\ err' = ptr2_val.err \o ptr1_val.err
                             \o <<"Invalid vector pointer">>
                   /\ sp' = ptr1_val.sp
                   /\ phase' = "faulted"
                   /\ UNCHANGED stack
              ELSE IF vectors[ptr1].size # vectors[ptr2].size
              THEN /\ err' = ptr2_val.err \o ptr1_val.err
                             \o <<"Vectors must have same size for dot product">>
                   /\ sp' = ptr1_val.sp
                   /\ phase' = "faulted"
                   /\ UNCHANGED stack
              ELSE /\ stack' = PushStack(stack, ptr1_val.sp,
                                  DotProduct(vectors[ptr1], vectors[ptr2]))
                   /\ sp' = PushSp(ptr1_val.sp)
                   /\ err' = ptr2_val.err \o ptr1_val.err
                             \o PushErr(ptr1_val.sp)
                   /\ UNCHANGED phase
    /\ ip' = ip + 1
    /\ UNCHANGED <<globals, memory, vectors, next_vector_index,
                   next_memory_address, code, code_size, exit_code,
                   run, out, dump>>

\* q + k does not fit an int
Overflows(q, k) ==
    \/ k > 0 /\ q > INT_MAX - k
    \/ k < 0 /\ q < INT_MIN - k

\* q + k modulo 2^32, for a sum that overflows
Wrapped(q, k) ==
    IF k > 0 THEN (q + INT_MIN) + (k + INT_MIN)
    ELSE (q - INT_MIN) + (k - INT_MIN)

\* vm->ip += offset with ip = q.  Signed overflow is undefined: the sum
\* wraps, or the process traps.
JumpTo(q, offset) ==
    IF Overflows(q, offset)
    THEN \/ ip' = Wrapped(q, offset) /\ UNCHANGED phase
         \/ ip' = q /\ phase' = "crashed"
    ELSE ip' = q + offset /\ UNCHANGED phase

\* a JUMP_IF_FALSE for which every condition that is not above zero is false
OpJumpIfNotPositive ==
    /\ Decode(OP_JUMP_IF_FALSE)
    /\ \E f \in FetchInt(ip + 1) :
          LET condition == Pop(sp)
          IN  /\ sp' = condition.sp
              /\ err' = f.err \o condition.err
              /\ IF ~DGt(condition.v, DZero(0))
                 THEN JumpTo(f.ip, f.v)
                 ELSE ip' = f.ip /\ UNCHANGED phase
    /\ UNCHANGED <<stack, globals, memory, vectors, next_vector_index,
                   next_memory_address, code, code_size, exit_code,
                   run, out, dump>>

OpJumpIfFalse ==
    /\ Decode(OP_JUMP_IF_FALSE)
    /\ \E f \in FetchInt(ip + 1) :
          LET condition == Pop(sp)
          IN  /\ sp' = condition.sp
              /\ err' = f.err \o condition.err
              /\ IF DEq(condition.v, DZero(0))
                 THEN JumpTo(f.ip, f.v)
                 ELSE ip' = f.ip /\ UNCHANGED phase
    /\ UNCHANGED <<stack, globals, memory, vectors, next_vector_index,
                   next_memory_address, code, code_size, exit_code,
                   run, out, dump>>

OpJump ==
    /\ Decode(OP_JUMP)
    /\ \E f \in FetchInt(ip + 1) :
          /\ err' = f.err
          /\ JumpTo(f.ip, f.v)
    /\ UNCHANGED <<stack, sp, globals, memory, vectors, next_vector_index,
                   next_memory_address, code, code_size, exit_code,
                   run, out, dump>>

RAND_MAX == INT_MAX
\* some of the values rand() returns
RandResults == {0, 1, RAND_MAX \div 2, RAND_MAX}

OpRand ==
    /\ Decode(OP_RAND)
    /\ \E r \in RandResults :
          stack' = PushStack(stack, sp, DDiv(DFromInt(r), DFromInt(RAND_MAX)))
    /\ sp' = PushSp(sp)
    /\ err' = PushErr(sp)
    /\ ip' = ip + 1
    /\ UNCHANGED <<globals, memory, vectors, next_vector_index,
                   next_memory_address, code, code_size, phase, exit_code,
                   run, out, dump>>

\* what scanf("%lf") finds on stdin: a value, or nothing it can parse
Inputs == {[ok |-> TRUE, v |-> DFromInt(2)],
           [ok |-> TRUE, v |-> DNeg(DZero(0))],
           [ok |-> FALSE, v |-> DZero(0)]}

OpInput ==
    /\ Decode(OP_INPUT)
    /\ Len(out) < MaxOutput
    /\ out' = Append(out, "? ")
    /\ \E in \in Inputs :
          /\ stack' = PushStack(stack, sp, in.v)
          /\ err' = (IF in.ok THEN <<>> ELSE <<"Failed to read input">>)
                    \o PushErr(sp)
    /\ sp' = PushSp(sp)
    /\ ip' = ip + 1
    /\ UNCHANGED <<globals, memory, vectors, next_vector_index,
                   next_memory_address, code, code_size, phase, exit_code,
                   run, dump>>

\* How many items of each part of the snapshot reach the file.  The four
\* fwrite calls are unchecked, so a write may stop short.
FullWrite == [ints |-> 2, memory |-> MEMORY_SIZE, vectors |-> MAX_VECTORS]
ShortWrites ==
    {[ints |-> 0, memory |-> 0, vectors |-> 0],
     [ints |-> 1, memory |-> 0, vectors |-> 0],
     [ints |-> 2, memory |-> 0, vectors |-> 0],
     [ints |-> 2, memory |-> 1, vectors |-> 0],
     [ints |-> 2, memory |-> MEMORY_SIZE, vectors |-> 0],
     [ints |-> 2, memory |-> MEMORY_SIZE, vectors |-> 1]}

\* a file with the two cursors in the other order
SnapshotCursorsSwapped(w) ==
    [exists |-> TRUE,
     ints |-> SubSeq(<<next_vector_index, next_memory_address>>, 1, w.ints),
     memory |-> SubSeq([i \in 1..MEMORY_SIZE |-> memory[i - 1]], 1, w.memory),
     vectors |-> SubSeq([i \in 1..MAX_VECTORS |-> vectors[i - 1]], 1, w.vectors)]

\* the file after the writes w of OP_SAVE_FILE
Snapshot(w) ==
    [exists |-> TRUE,
     ints |-> SubSeq(<<next_memory_address, next_vector_index>>, 1, w.ints),
     memory |-> SubSeq([i \in 1..MEMORY_SIZE |-> memory[i - 1]], 1, w.memory),
     vectors |-> SubSeq([i \in 1..MAX_VECTORS |-> vectors[i - 1]], 1, w.vectors)]

\* OP_SAVE_FILE where the writes that reach the file are among W
SaveFile(W) ==
    /\ Decode(OP_SAVE_FILE)
    /\ \/ /\ err' = <<"Cannot create file memory.dump">>
          /\ UNCHANGED dump
       \/ /\ \E w \in W : dump' = Snapshot(w)
          /\ err' = <<>>
    /\ ip' = ip + 1
    /\ UNCHANGED <<stack, sp, globals, memory, vectors, next_vector_index,
                   next_memory_address, code, code_size, phase, exit_code,
                   run, out>>

OpSaveFile == SaveFile({FullWrite} \cup ShortWrites)

\* OP_SAVE_FILE on a disk that takes every write
OpSaveFileInFull == SaveFile({FullWrite})

\* every fread of OP_LOAD_FILE returned the count it asked for
ReadInFull(d) ==
    /\ Len(d.ints) = 2
    /\ Len(d.memory) = MEMORY_SIZE
    /\ Len(d.vectors) = MAX_VECTORS

\* a LOAD_FILE that returns from vm_execute when it cannot open the file
OpLoadFileOrStop ==
    /\ Decode(OP_LOAD_FILE)
    /\ IF ~dump.exists
       THEN /\ err' = <<"Cannot open file memory.dump">>
            /\ phase' = "faulted"
            /\ UNCHANGED <<memory, vectors, next_vector_index,
                           next_memory_address>>
       ELSE /\ next_memory_address' =
                  IF Len(dump.ints) >= 1 THEN dump.ints[1]
                  ELSE next_memory_address
            /\ next_vector_index' =
                  IF Len(dump.ints) >= 2 THEN dump.ints[2]
                  ELSE next_vector_index
            /\ memory' = [j \in 0..(MEMORY_SIZE - 1) |->
                            IF j < Len(dump.memory) THEN dump.memory[j + 1]
                            ELSE memory[j]]
            /\ vectors' = [j \in 0..(MAX_VECTORS - 1) |->
                             IF j < Len(dump.vectors) THEN dump.vectors[j + 1]
                             ELSE vectors[j]]
            /\ err' = IF ReadInFull(dump) THEN <<>>
                      ELSE <<"Failed to read from file memory.dump">>
            /\ UNCHANGED phase
    /\ ip' = ip + 1
    /\ UNCHANGED <<stack, sp, globals, code, code_size, exit_code,
                   run, out, dump>>

OpLoadFile ==
    /\ Decode(OP_LOAD_FILE)
    /\ IF ~dump.exists
       THEN /\ err' = <<"Cannot open file memory.dump">>
            /\ UNCHANGED <<memory, vectors, next_vector_index,
                           next_memory_address>>
       ELSE /\ next_memory_address' =
                  IF Len(dump.ints) >= 1 THEN dump.ints[1]
                  ELSE next_memory_address
            /\ next_vector_index' =
                  IF Len(dump.ints) >= 2 THEN dump.ints[2]
                  ELSE next_vector_index
            /\ memory' = [j \in 0..(MEMORY_SIZE - 1) |->
                            IF j < Len(dump.memory) THEN dump.memory[j + 1]
                            ELSE memory[j]]
            /\ vectors' = [j \in 0..(MAX_VECTORS - 1) |->
                             IF j < Len(dump.vectors) THEN dump.vectors[j + 1]
                             ELSE vectors[j]]
            /\ err' = IF ReadInFull(dump) THEN <<>>
                      ELSE <<"Failed to read from file memory.dump">>
    /\ ip' = ip + 1
    /\ UNCHANGED <<stack, sp, globals, code, code_size, phase, exit_code,
                   run, out, dump>>

OpHalt ==
    /\ Decode(OP_HALT)
    /\ ip' = ip + 1
    /\ phase' = "halted"
    /\ err' = <<>>
    /\ UNCHANGED <<stack, sp, globals, memory, vectors, next_vector_index,
                   next_memory_address, code, code_size, exit_code,
                   run, out, dump>>

\* the default case of the switch
OpUnknown ==
    /\ \E opcode \in 0..255 : opcode > OP_HALT /\ Decode(opcode)
    /\ ip' = ip + 1
    /\ phase' = "faulted"
    /\ err' = <<"Unknown opcode">>
    /\ UNCHANGED <<stack, sp, globals, memory, vectors, next_vector_index,
                   next_memory_address, code, code_size, exit_code,
                   run, out, dump>>

\* a fetch below the code array that the machine does not survive
OobCrash ==
    /\ phase = "running"
    /\ ip < code_size
    /\ ip < 0
    /\ phase' = "crashed"
    /\ err' = <<>>
    /\ UNCHANGED <<stack, sp, ip, globals, memory, vectors, next_vector_index,
                   next_memory_address, code, code_size, exit_code,
                   run, out, dump>>

\* while (vm->ip < vm->code_size) is false: vm_execute returns
LoopExit ==
    /\ phase = "running"
    /\ ip >= code_size
    /\ phase' = "halted"
    /\ err' = <<>>
    /\ UNCHANGED <<stack, sp, ip, globals, memory, vectors, next_vector_index,
                   next_memory_address, code, code_size, exit_code,
                   run, out, dump>>

\* a main that reports a fault of vm_execute in its exit code
ExitReportsFault ==
    /\ phase \in {"halted", "faulted"}
    /\ phase' = "exited"
    /\ exit_code' = (IF phase = "faulted" THEN 1 ELSE 0)
    /\ UNCHANGED <<stack, sp, ip, globals, memory, vectors, next_vector_index,
                   next_memory_address, code, code_size, run, out, err, dump>>

\* main after vm_execute: vm_destroy, return 0
Exit ==
    /\ phase \in {"halted", "faulted"}
    /\ phase' = "exited"
    /\ exit_code' = 0
    /\ UNCHANGED <<stack, sp, ip, globals, memory, vectors, next_vector_index,
                   next_memory_address, code, code_size, run, out, err, dump>>

(***************************************************************************)
(* Program files, as the compiler lays instructions out: an opcode byte    *)
(* followed by its operand bytes.                                          *)
(***************************************************************************)
Ins(op) == <<op>>
InsInt(op, n) == <<op>> \o BytesOfInt(n)
Push(d) == <<OP_PUSH>> \o BytesOfDouble(d)
PushInt(n) == Push(DFromInt(n))

Half == [s |-> 0, e |-> 1022, f |-> Zero4]
\* -0.3, 0.8, 0.1, 0.2, 1.0000000001, 1.1 and 1e300 as the compiler rounds them
MinusThreeTenths == [s |-> 1, e |-> 1021, f |-> <<4915, 6553, 3276, 1638>>]
EightTenths == [s |-> 0, e |-> 1022, f |-> <<6554, 3276, 1638, 4915>>]
OneTenth == [s |-> 0, e |-> 1019, f |-> <<6554, 3276, 1638, 4915>>]
TwoTenths == [s |-> 0, e |-> 1020, f |-> <<6554, 3276, 1638, 4915>>]
OnePlusTiny == [s |-> 0, e |-> 1023, f |-> <<7992, 54, 0, 0>>]
ElevenTenths == [s |-> 0, e |-> 1023, f |-> <<6554, 3276, 1638, 819>>]
Huge == [s |-> 0, e |-> 2019, f |-> <<5532, 3, 3874, 4040>>]

\* the neuron example of README.md: weights <- [0.5, -0.3, 0.8],
\* inputs <- [1.0, 2.0, 0.5], output <- weights dot inputs, print output
Neuron ==
    Push(Half) \o Push(MinusThreeTenths) \o Push(EightTenths)
    \o InsInt(OP_VECTOR, 3) \o InsInt(OP_STORE, 0)
    \o PushInt(1) \o PushInt(2) \o Push(Half)
    \o InsInt(OP_VECTOR, 3) \o InsInt(OP_STORE, 1)
    \o InsInt(OP_LOAD, 0) \o InsInt(OP_LOAD, 1) \o Ins(OP_DOT)
    \o InsInt(OP_STORE, 2) \o InsInt(OP_LOAD, 2) \o Ins(OP_PRINT)
    \o Ins(OP_HALT)

DivPrograms ==
    {PushInt(3) \o Push(z) \o Ins(OP_DIV) \o Ins(OP_PRINT) :
        z \in {DZero(0), DZero(1), DFromInt(4)}}
    \cup {PushInt(3) \o Ins(OP_PRINT) \o Ins(OP_DIV) \o PushInt(1) \o Ins(OP_PRINT),
          PushInt(3) \o Ins(OP_DIV) \o Ins(OP_PRINT)}

\* PUSH 0.1; PUSH 0.2; PRINT; PRINT; PRINT; HALT
PrintThrice ==
    Push(OneTenth) \o Push(TwoTenths) \o Ins(OP_PRINT) \o Ins(OP_PRINT)
    \o Ins(OP_PRINT) \o Ins(OP_HALT)

ArithPrograms ==
    {PrintThrice} \cup
    {Push(OneTenth) \o Push(TwoTenths) \o Ins(op) \o Ins(OP_PRINT) \o Ins(OP_HALT) :
        op \in {OP_ADD, OP_SUB, OP_MUL, OP_GT, OP_LT, OP_EQ}}
    \cup {PushInt(1) \o Push(x) \o Ins(OP_EQ) \o Ins(OP_PRINT) :
             x \in {OnePlusTiny, ElevenTenths}}
    \cup {Push(OneTenth) \o Ins(op) \o Ins(OP_PRINT) \o Ins(OP_HALT) :
             op \in {OP_ADD, OP_SUB, OP_MUL, OP_GT, OP_LT, OP_EQ}}
    \cup {Push(x) \o Ins(OP_RELU) \o Ins(OP_PRINT) :
             x \in {MinusThreeTenths, Half, DZero(1)}}
    \cup {Ins(OP_RAND) \o Ins(OP_PRINT),
          Ins(OP_INPUT) \o Ins(OP_INPUT) \o Ins(OP_ADD) \o Ins(OP_PRINT)}

\* PUSH 7; STORE 5; LOAD 5; LOAD 6; PRINT; PRINT
StoreLoadLoad ==
    PushInt(7) \o InsInt(OP_STORE, 5) \o InsInt(OP_LOAD, 5)
    \o InsInt(OP_LOAD, 6) \o Ins(OP_PRINT) \o Ins(OP_PRINT)

GlobalPrograms ==
    {PushInt(7) \o InsInt(op, i) \o PushInt(1) \o Ins(OP_PRINT) \o Ins(OP_PRINT) :
        op \in {OP_STORE, OP_LOAD}, i \in {-1, 0, GLOBAL_SIZE - 1, GLOBAL_SIZE}}
    \cup {StoreLoadLoad}

VectorPrograms ==
    {PushInt(1) \o PushInt(2) \o InsInt(OP_VECTOR, n) \o Ins(OP_PRINT) :
        n \in {-1, 0, 1, 2, 3, MEMORY_SIZE, MEMORY_SIZE + 1}}

DotPrograms ==
    { \* two vectors of different sizes
      PushInt(1) \o InsInt(OP_VECTOR, 1) \o PushInt(1) \o PushInt(2)
      \o InsInt(OP_VECTOR, 2) \o Ins(OP_DOT) \o Ins(OP_PRINT),
      \* a vector with itself
      PushInt(2) \o PushInt(3) \o InsInt(OP_VECTOR, 2) \o InsInt(OP_STORE, 0)
      \o InsInt(OP_LOAD, 0) \o InsInt(OP_LOAD, 0) \o Ins(OP_DOT) \o Ins(OP_PRINT),
      \* two vectors of size 2, references in both orders
      Push(OneTenth) \o PushInt(3) \o InsInt(OP_VECTOR, 2) \o InsInt(OP_STORE, 0)
      \o Push(TwoTenths) \o Push(Huge) \o InsInt(OP_VECTOR, 2)
      \o InsInt(OP_LOAD, 0) \o Ins(OP_DOT) \o Ins(OP_PRINT) }
    \cup { \* one vector, and DOT with one value or none on the stack
      PushInt(3) \o InsInt(OP_VECTOR, 1) \o Ins(OP_DOT) \o Ins(OP_PRINT),
      PushInt(3) \o InsInt(OP_VECTOR, 1) \o InsInt(OP_STORE, 0) \o Ins(OP_DOT)
      \o Ins(OP_PRINT) }
    \cup { \* one vector, and a second reference that is none
      PushInt(1) \o InsInt(OP_VECTOR, 1) \o Push(x) \o Ins(OP_DOT) \o Ins(OP_PRINT) :
         x \in {DFromInt(1), DFromInt(-1), Half, Huge, DefaultNaN} }

\* PUSH c; JUMP_IF_FALSE k; PUSH 1; PUSH 2; PRINT; PRINT
SkipIfFalse(c, k) ==
    Push(c) \o InsInt(OP_JUMP_IF_FALSE, k) \o PushInt(1) \o PushInt(2)
    \o Ins(OP_PRINT) \o Ins(OP_PRINT)

JumpPrograms ==
    {InsInt(OP_JUMP, k) \o PushInt(1) \o PushInt(2) \o Ins(OP_PRINT) \o Ins(OP_PRINT) :
        k \in {0, 9, 18, 100, -5, -8, INT_MAX, INT_MIN}}
    \cup {SkipIfFalse(c, k) :
             c \in {DZero(0), DZero(1), DFromInt(1), DFromInt(-1), DefaultNaN},
             k \in {0, 9, -17, INT_MAX}}
    \cup {InsInt(OP_JUMP_IF_FALSE, 9) \o PushInt(1) \o PushInt(2) \o Ins(OP_PRINT)}
    \cup { \* count globals[0] down from 2
          PushInt(2) \o InsInt(OP_STORE, 0)
          \o InsInt(OP_LOAD, 0) \o PushInt(1) \o Ins(OP_SUB) \o InsInt(OP_STORE, 0)
          \o InsInt(OP_LOAD, 0) \o InsInt(OP_JUMP_IF_FALSE, 5)
          \o InsInt(OP_JUMP, -44) \o Ins(OP_HALT) }

\* an instruction whose operand is cut off by the end of the file
TruncatedPrograms ==
    {PushInt(7) \o <<op>> \o tail :
        op \in {OP_PUSH, OP_STORE, OP_LOAD, OP_VECTOR, OP_JUMP, OP_JUMP_IF_FALSE},
        tail \in {<<>>, <<OP_PRINT>>, <<OP_PRINT, OP_PRINT, OP_PRINT>>}}

\* A loop that keeps one 0.0 per round until the stack is full: the PUSH 1.0
\* is then refused, JUMP_IF_FALSE pops the 0.0 kept last and leaves the loop
\* at byte 28 with sp = STACK_SIZE - 2; what follows pushes five times.
FillThenPush ==
    Push(DZero(0)) \o PushInt(1) \o InsInt(OP_JUMP_IF_FALSE, 5)
    \o InsInt(OP_JUMP, -28)
    \o PushInt(7) \o Ins(OP_RAND) \o Ins(OP_INPUT) \o InsInt(OP_LOAD, 0)
    \o PushInt(1) \o Ins(OP_PRINT) \o Ins(OP_HALT)

\* loops that run into the end of the stack, the vector table, the memory
ExhaustPrograms ==
    {FillThenPush,
     PushInt(1) \o InsInt(OP_JUMP, -14),
     PushInt(1) \o InsInt(OP_VECTOR, 1) \o InsInt(OP_JUMP, -19),
     PushInt(1) \o PushInt(1) \o PushInt(1) \o PushInt(1) \o PushInt(1)
     \o PushInt(1) \o PushInt(1) \o PushInt(1) \o PushInt(1)
     \o InsInt(OP_VECTOR, 9) \o InsInt(OP_JUMP, -91)}

\* programs that write or read memory.dump
\* x = 7; save; x = 1; load; print x
SaveStoreLoad ==
    PushInt(7) \o InsInt(OP_STORE, 0) \o Ins(OP_SAVE_FILE) \o PushInt(1)
    \o InsInt(OP_STORE, 0) \o Ins(OP_LOAD_FILE) \o InsInt(OP_LOAD, 0)
    \o Ins(OP_PRINT)

SnapshotPrograms ==
    {PushInt(2) \o PushInt(3) \o InsInt(OP_VECTOR, 2) \o Ins(OP_SAVE_FILE)
     \o Ins(OP_HALT),
     Ins(OP_LOAD_FILE) \o Ins(OP_SAVE_FILE) \o Ins(OP_HALT),
     Ins(OP_SAVE_FILE) \o PushInt(7) \o InsInt(OP_VECTOR, 1)
     \o Ins(OP_LOAD_FILE) \o PushInt(1) \o InsInt(OP_VECTOR, 1) \o Ins(OP_DOT),
     SaveStoreLoad}

\* every file of two bytes over the opcodes and two bytes that are none
OpcodeBytes == 0..(OP_HALT + 1) \cup {255}
BytePairs == {<<a, b>> : a, b \in OpcodeBytes}

Programs ==
    {Neuron} \cup DivPrograms \cup ArithPrograms \cup GlobalPrograms
    \cup VectorPrograms \cup DotPrograms \cup JumpPrograms
    \cup TruncatedPrograms \cup ExhaustPrograms \cup SnapshotPrograms
    \cup BytePairs

\* the file named on the command line: absent, empty, too large, or a program
NoFile == [exists |-> FALSE, bytes |-> <<>>]
File(b) == [exists |-> TRUE, bytes |-> b]
TooLarge == [i \in 1..(MAX_PROGRAM_SIZE + 1) |-> OP_HALT]

ProgramFiles(r) ==
    IF r = 1
    THEN {NoFile, File(<<>>), File(TooLarge)} \cup {File(b) : b \in Programs}
    ELSE {File(b) : b \in SnapshotPrograms}

\* main up to the call of vm_execute, and the first statement of vm_execute
Main ==
    /\ phase \in {"start", "exited", "crashed"}
    /\ run < MaxRuns
    /\ run' = run + 1
    /\ out' = <<>>
    /\ \/ /\ err' = <<"Failed to allocate VM memory">>
          /\ phase' = "exited"
          /\ exit_code' = 1
          /\ UNCHANGED <<stack, sp, ip, globals, memory, vectors,
                         next_vector_index, next_memory_address, code,
                         code_size>>
       \/ /\ Created
          /\ \E file \in ProgramFiles(run + 1) :
                IF ~file.exists
                THEN /\ err' = <<"Cannot open file">>
                     /\ code' = <<>>
                     /\ code_size' = 0
                     /\ phase' = "exited"
                     /\ exit_code' = 1
                ELSE IF Len(file.bytes) > MAX_PROGRAM_SIZE
                THEN /\ err' = <<"Program too large">>
                     /\ code' = <<>>
                     /\ code_size' = 0
                     /\ phase' = "exited"
                     /\ exit_code' = 1
                ELSE IF Len(file.bytes) = 0
                THEN /\ err' = <<"Failed to read program">>
                     /\ code' = <<>>
                     /\ code_size' = 0
                     /\ phase' = "exited"
                     /\ exit_code' = 1
                ELSE /\ err' = <<>>
                     /\ code' = file.bytes
                     /\ code_size' = Len(file.bytes)
                     /\ phase' = "running"
                     /\ exit_code' = -1
    /\ UNCHANGED dump

\* every step but OP_SAVE_FILE
OtherSteps ==
    \/ Main
    \/ OpPush
    \/ OpAdd
    \/ OpSub
    \/ OpMul
    \/ OpDiv
    \/ OpPrint
    \/ OpStore
    \/ OpLoad
    \/ OpVector
    \/ OpDot
    \/ OpRelu
    \/ OpGt
    \/ OpLt
    \/ OpEq
    \/ OpJumpIfFalse
    \/ OpJump
    \/ OpRand
    \/ OpInput
    \/ OpLoadFile
    \/ OpHalt
    \/ OpUnknown
    \/ OobCrash
    \/ LoopExit
    \/ Exit

Next ==
    \/ OtherSteps
    \/ OpSaveFile

Spec == Init /\ [][Next]_vars

\* FillThenPush as it leaves its loop, 3 * (STACK_SIZE - 1) + 3 steps after
\* its start: every cell it wrote holds 0.0
AtLoopEnd ==
    /\ stack = [i \in 0..(STACK_SIZE - 1) |-> DZero(0)]
    /\ globals = [i \in 0..(GLOBAL_SIZE - 1) |-> DZero(0)]
    /\ memory = [i \in 0..(MEMORY_SIZE - 1) |-> DZero(0)]
    /\ vectors = [i \in 0..(MAX_VECTORS - 1) |-> ZeroVector]
    /\ sp = STACK_SIZE - 2
    /\ ip = 28
    /\ next_vector_index = 0
    /\ next_memory_address = 0
    /\ code = FillThenPush
    /\ code_size = Len(FillThenPush)
    /\ phase = "running"
    /\ exit_code = -1
    /\ run = 1
    /\ out = <<>>
    /\ err = <<>>
    /\ dump = NoDump

\* the behaviours of Spec, and those that set out from AtLoopEnd, a state
\* Spec reaches only after more than three thousand steps
SpecFromLoopEnd == (Init \/ AtLoopEnd) /\ [][Next]_vars

\* the same processes on a disk where no write of OP_SAVE_FILE stops short
NextInFull ==
    \/ OtherSteps
    \/ OpSaveFileInFull

SpecInFull == Init /\ [][NextInFull]_vars

(***************************************************************************)
(* The properties checked.  At(op) says that the next instruction is op,   *)
(* read inside the code array; VmFields are the fields of the VM struct.   *)
(***************************************************************************)
At(op) == phase = "running" /\ 0 <= ip /\ ip < code_size /\ code[ip + 1] = op

VmFields == <<stack, sp, ip, globals, memory, vectors, next_vector_index,
              next_memory_address, code, code_size>>

\* PUSH 3.0; PUSH 0.0; DIV; PRINT
ThreeByZero == PushInt(3) \o Push(DZero(0)) \o Ins(OP_DIV) \o Ins(OP_PRINT)

\* C1: a DIV whose popped divisor equals 0.0 leaves the engine faulted with
\* nothing pushed; from faulted the only step is the exit of the process,
\* which changes no field of the VM and prints nothing; the program
\* PUSH 3.0; PUSH 0.0; DIV; PRINT never has any output.
C1_DivByZeroIsFatal ==
    [][ /\ (At(OP_DIV) /\ DEq(Pop(sp).v, DZero(0))) =>
              (/\ phase' = "faulted"
               /\ stack' = stack
               /\ sp' = Pop(Pop(sp).sp).sp
               /\ out' = out)
        /\ (phase = "faulted") =>
              (phase' = "exited" /\ UNCHANGED <<VmFields, out>>)
        /\ (code' = ThreeByZero) => (out' = <<>>)
      ]_vars

C1_Witness ==
    /\ code = ThreeByZero
    /\ phase = "faulted"
    /\ err = <<"Division by zero">>
    /\ sp = -1
    /\ out = <<>>

RECURSIVE SumOfProducts(_, _, _)
\* ((0.0 + m[a1] * m[a2]) + ...) + m[a1 + n - 1] * m[a2 + n - 1]
SumOfProducts(a1, a2, n) ==
    IF n = 0 THEN DZero(0)
    ELSE DAdd(SumOfProducts(a1, a2, n - 1),
              DMul(memory[a1 + n - 1], memory[a2 + n - 1]))

\* C2: DOT on the references of two vectors k1 and k2 that VECTOR created
\* (k2 on top of the stack) replaces them by the sum of the products of
\* their elements when the two sizes are equal, and faults with nothing
\* pushed when the sizes differ; the neuron program of the README prints 0.3.
C2_DotIsSumOfProducts ==
    [][ /\ (At(OP_DOT) /\ sp >= 1) =>
              \A k1, k2 \in 0..(next_vector_index - 1) :
                 (stack[sp - 1] = DFromInt(k1) /\ stack[sp] = DFromInt(k2)) =>
                    IF vectors[k1].size = vectors[k2].size
                    THEN /\ phase' = "running"
                         /\ sp' = sp - 1
                         /\ stack'[sp - 1] =
                               SumOfProducts(vectors[k1].address,
                                             vectors[k2].address,
                                             vectors[k1].size)
                    ELSE /\ phase' = "faulted"
                         /\ sp' = sp - 2
                         /\ stack' = stack
        /\ (code' = Neuron /\ phase' = "exited" /\ exit_code' = 0) =>
              (out' = <<"0.3">>)
      ]_vars

C2_Witness ==
    /\ code = Neuron
    /\ phase = "exited"
    /\ exit_code = 0
    /\ out = <<"0.3">>

\* the int operand after the opcode at ip, when the code holds all of it
HasIntOperand == ip + 5 <= code_size
IntOperand == IntFromBytes(SubSeq(code, ip + 2, ip + 5))

\* C3: a VECTOR n that finds n values on the stack, room in the memory and
\* in the table stores the values at A = next_memory_address in the order
\* they were pushed, records {n, A} at K = next_vector_index, replaces the
\* n values by K, and advances the cursors by n and by 1.
C3_VectorStoresInPushOrder ==
    [][ LET n == IntOperand
            A == next_memory_address
            K == next_vector_index
        IN  (/\ At(OP_VECTOR) /\ HasIntOperand
             /\ 1 <= n /\ n <= sp + 1
             /\ A + n <= MEMORY_SIZE /\ K < MAX_VECTORS) =>
               (/\ \A i \in 0..(n - 1) : memory'[A + i] = stack[sp - (n - 1) + i]
                /\ vectors'[K] = [size |-> n, address |-> A]
                /\ sp' = sp - n + 1
                /\ stack'[sp - n + 1] = DFromInt(K)
                /\ \A c \in 0..(sp - n) : stack'[c] = stack[c]
                /\ next_memory_address' = A + n
                /\ next_vector_index' = K + 1)
      ]_vars

C3_Witness ==
    /\ code = Neuron
    /\ next_vector_index = 2
    /\ next_memory_address = 6
    /\ vectors[1] = [size |-> 3, address |-> 3]
    /\ memory[3] = One /\ memory[4] = DFromInt(2) /\ memory[5] = Half
    /\ sp = 0 /\ stack[0] = DFromInt(1)

\* x is the int a + b; a sum outside the range of int is no value of ip
SumIs(x, a, b) == ~Overflows(a, b) /\ x = a + b

\* C4: after JUMP, and after JUMP_IF_FALSE when the popped condition is
\* 0.0, with the opcode at p and a complete operand k, ip is p + 5 + k; a
\* JUMP with offset 0 changes nothing but ip, which becomes p + 5.
C4_JumpIsRelativeToOperandEnd ==
    [][ /\ (At(OP_JUMP) /\ HasIntOperand) => SumIs(ip', ip + 5, IntOperand)
        /\ (At(OP_JUMP_IF_FALSE) /\ HasIntOperand
                /\ DEq(Pop(sp).v, DZero(0))) => SumIs(ip', ip + 5, IntOperand)
        /\ (At(OP_JUMP) /\ HasIntOperand /\ IntOperand = 0) =>
              (/\ ip' = ip + 5
               /\ UNCHANGED <<stack, sp, globals, memory, vectors,
                              next_vector_index, next_memory_address, code,
                              code_size, phase, out>>)
      ]_vars

\* the snapshot d holds everything OP_SAVE_FILE writes
Complete(d) ==
    /\ d.exists
    /\ Len(d.ints) = 2
    /\ Len(d.memory) = MEMORY_SIZE
    /\ Len(d.vectors) = MAX_VECTORS

\* the memory, the vector table and the two cursors are those in d
Holds(d) ==
    /\ d.ints = <<next_memory_address, next_vector_index>>
    /\ \A i \in 0..(MEMORY_SIZE - 1) : d.memory[i + 1] = memory[i]
    /\ \A i \in 0..(MAX_VECTORS - 1) : d.vectors[i + 1] = vectors[i]

\* C5: a SAVE_FILE that succeeds leaves a snapshot holding the memory, the
\* vector table and the two cursors of the VM that saves; a LOAD_FILE of a
\* complete snapshot gives the loading VM exactly the memory, table and
\* cursors in the snapshot; and a VM whose four fields are those of the
\* snapshot writes the same snapshot again.
C5_SaveThenLoadRestores ==
    [][ /\ (At(OP_SAVE_FILE) /\ err' = <<>> /\ Complete(dump')) =>
              (/\ dump'.ints = <<next_memory_address, next_vector_index>>
               /\ \A i \in 0..(MEMORY_SIZE - 1) : dump'.memory[i + 1] = memory[i]
               /\ \A i \in 0..(MAX_VECTORS - 1) :
                     dump'.vectors[i + 1] = vectors[i])
        /\ (At(OP_LOAD_FILE) /\ Complete(dump)) =>
              (/\ err' = <<>>
               /\ next_memory_address' = dump.ints[1]
               /\ next_vector_index' = dump.ints[2]
               /\ \A i \in 0..(MEMORY_SIZE - 1) : memory'[i] = dump.memory[i + 1]
               /\ \A i \in 0..(MAX_VECTORS - 1) :
                     vectors'[i] = dump.vectors[i + 1])
        /\ (At(OP_SAVE_FILE) /\ err' = <<>> /\ Complete(dump') /\ Complete(dump)
                /\ Holds(dump)) => (dump' = dump)
      ]_vars

\* LOAD_FILE; SAVE_FILE; HALT
LoadThenSave == Ins(OP_LOAD_FILE) \o Ins(OP_SAVE_FILE) \o Ins(OP_HALT)

\* the second process has loaded what the first one saved, a vector [2, 3],
\* and has saved it again
C5_Witness ==
    /\ run = 2
    /\ code = LoadThenSave
    /\ ip = 2
    /\ err = <<>>
    /\ next_vector_index = 1
    /\ next_memory_address = 2
    /\ vectors[0] = [size |-> 2, address |-> 0]
    /\ memory[0] = DFromInt(2) /\ memory[1] = DFromInt(3)
    /\ Complete(dump) /\ Holds(dump)

\* C6: the stack pointer stays within -1 .. STACK_SIZE - 1
C6_StackPointerInRange == -1 <= sp /\ sp < STACK_SIZE

\* PRINT has found the stack empty and left sp alone
C6_Witness ==
    /\ sp = -1
    /\ phase = "running"
    /\ ip = 1
    /\ err = <<"Nothing to print">>

\* C7: on a disk where every snapshot is written in full, the cursors stay
\* within 0 .. MEMORY_SIZE and 0 .. MAX_VECTORS, and every descriptor below
\* next_vector_index has address >= 0, size >= 1 and
\* address + size <= next_memory_address.
C7_DescriptorsWithinMemory ==
    /\ 0 <= next_memory_address /\ next_memory_address <= MEMORY_SIZE
    /\ 0 <= next_vector_index /\ next_vector_index <= MAX_VECTORS
    /\ \A i \in 0..(next_vector_index - 1) :
          /\ vectors[i].address >= 0
          /\ vectors[i].size >= 1
          /\ vectors[i].address + vectors[i].size <= next_memory_address

\* a second process with an empty stack holds the vector the first one saved
C7_Witness ==
    /\ run = 2
    /\ sp = -1
    /\ phase = "running"
    /\ next_vector_index = 1
    /\ next_memory_address = 2
    /\ vectors[0] = [size |-> 2, address |-> 0]

\* C8 as stated: within one process no step lowers a cursor
C8_CursorsNeverDecrease ==
    [][ (run' = run) =>
           (/\ next_memory_address' >= next_memory_address
            /\ next_vector_index' >= next_vector_index)
      ]_vars

\* C8, amended: within one process no step other than a LOAD_FILE lowers
\* next_memory_address or next_vector_index.
C8_CursorsDecreaseOnlyByLoadFile ==
    [][ (run' = run /\ ~Decode(OP_LOAD_FILE)) =>
           (/\ next_memory_address' >= next_memory_address
            /\ next_vector_index' >= next_vector_index)
      ]_vars

\* two VECTOR instructions have moved both cursors
C8_Witness ==
    /\ run = 1
    /\ phase = "running"
    /\ next_vector_index = 2
    /\ next_memory_address = 3
    /\ vectors[1] = [size |-> 2, address |-> 1]

\* C9: an instruction whose operand runs past code_size faults, and has no
\* effect on the stack, the globals, the memory or the vector table.
C9_TruncatedOperandIsFatal ==
    [][ (\/ At(OP_PUSH) /\ ip + 9 > code_size
         \/ /\ ~HasIntOperand
            /\ \E op \in {OP_STORE, OP_LOAD, OP_VECTOR, OP_JUMP,
                           OP_JUMP_IF_FALSE} : At(op)) =>
           (/\ phase' = "faulted"
            /\ UNCHANGED <<stack, sp, globals, memory, vectors,
                           next_vector_index, next_memory_address>>)
      ]_vars

\* C10: an opcode above OP_HALT, a STORE or LOAD with an index outside
\* 0 .. GLOBAL_SIZE - 1, a DOT with a reference outside the vectors created
\* or on vectors of different sizes, and a VECTOR with a size that is not
\* positive, that exceeds the memory left, or with the table full, each leave
\* the engine faulted; HALT leaves it halted; from faulted and from halted
\* the only step is the exit of the process, which changes no field of the VM.
C10_FaultsAndHaltAreTerminal ==
    [][ /\ (\E b \in (OP_HALT + 1)..255 : At(b)) => (phase' = "faulted")
        /\ ((At(OP_STORE) \/ At(OP_LOAD)) /\ HasIntOperand
                /\ (IntOperand < 0 \/ IntOperand >= GLOBAL_SIZE)) =>
              (phase' = "faulted")
        /\ (At(OP_DOT)
                /\ \A p1 \in IntCast(Pop(Pop(sp).sp).v), p2 \in IntCast(Pop(sp).v) :
                      \/ p1 \notin 0..(next_vector_index - 1)
                      \/ p2 \notin 0..(next_vector_index - 1)) =>
              (phase' = "faulted")
        /\ (At(OP_DOT) /\ sp >= 1) =>
              \A k1, k2 \in 0..(next_vector_index - 1) :
                 (/\ stack[sp - 1] = DFromInt(k1) /\ stack[sp] = DFromInt(k2)
                  /\ vectors[k1].size # vectors[k2].size) => (phase' = "faulted")
        /\ (At(OP_VECTOR) /\ HasIntOperand
                /\ (\/ IntOperand <= 0
                    \/ IntOperand > MEMORY_SIZE - next_memory_address
                    \/ next_vector_index >= MAX_VECTORS)) =>
              (phase' = "faulted")
        /\ At(OP_HALT) => (phase' = "halted")
        /\ (phase \in {"faulted", "halted"}) =>
              (phase' = "exited" /\ UNCHANGED VmFields)
      ]_vars

\* STORE 256 has faulted and the process has ended
C10_Witness ==
    /\ phase = "exited"
    /\ exit_code = 0
    /\ code = PushInt(7) \o InsInt(OP_STORE, GLOBAL_SIZE) \o PushInt(1)
              \o Ins(OP_PRINT) \o Ins(OP_PRINT)
    /\ ip = 14
    /\ sp = 0
    /\ out = <<>>

\* the value of the pop number k + 1 of an instruction: the cell k below
\* the top, or 0.0 once the stack is used up
Popped(k) == IF sp - k >= 0 THEN stack[sp - k] ELSE DZero(0)

\* what a two-operand instruction pushes for a beneath b
Result(op, a, b) ==
    CASE op = OP_ADD -> DAdd(a, b)
      [] op = OP_SUB -> DSub(a, b)
      [] op = OP_MUL -> DMul(a, b)
      [] op = OP_DIV -> DDiv(a, b)
      [] op = OP_GT -> Flag(DGt(a, b))
      [] op = OP_LT -> Flag(DLt(a, b))
      [] op = OP_EQ -> EqFlag(a, b)

\* a two-operand instruction that finds fewer than two values works on
\* 0.0 for each missing one and goes on
UnderflowBinary(ops) ==
    \A op \in ops :
       (At(op) /\ sp < 1) =>
          (/\ phase' = "running"
           /\ ip' = ip + 1
           /\ sp' = 0
           /\ stack'[0] = Result(op, Popped(1), Popped(0)))

\* RELU, STORE and JUMP_IF_FALSE on an empty stack
UnderflowUnary ==
    /\ (At(OP_RELU) /\ sp = -1) =>
          (phase' = "running" /\ ip' = ip + 1 /\ sp' = 0 /\ stack'[0] = DZero(0))
    /\ (At(OP_STORE) /\ sp = -1 /\ HasIntOperand
            /\ IntOperand \in 0..(GLOBAL_SIZE - 1)) =>
          (/\ phase' = "running" /\ ip' = ip + 5 /\ sp' = -1
           /\ globals'[IntOperand] = DZero(0))
    /\ (At(OP_JUMP_IF_FALSE) /\ sp = -1 /\ HasIntOperand) =>
          (phase' = "running" /\ sp' = -1)

\* C11 as stated: every instruction that pops from a stack that is used up
\* works on 0.0 and the loop goes on to its next iteration
C11_UnderflowNeverStops ==
    [][ /\ UnderflowBinary({OP_ADD, OP_SUB, OP_MUL, OP_DIV, OP_GT, OP_LT, OP_EQ})
        /\ UnderflowUnary
        /\ (At(OP_DOT) /\ sp < 1) => (phase' = "running")
      ]_vars

\* C11, amended: a failed pop yields 0.0 and leaves sp at -1, and the
\* instruction works on that 0.0; the loop then goes on, unless the
\* instruction itself faults on the value: a DIV whose divisor is 0.0, by
\* the failed pop or not, and a DOT for which 0 is no reference of a vector.
C11_UnderflowIsNotFatalByItself ==
    [][ /\ UnderflowBinary({OP_ADD, OP_SUB, OP_MUL, OP_GT, OP_LT, OP_EQ})
        /\ UnderflowUnary
        /\ (At(OP_DIV) /\ sp < 1) =>
              IF DEq(Popped(0), DZero(0))
              THEN phase' = "faulted" /\ sp' = -1 /\ stack' = stack
              ELSE /\ phase' = "running" /\ sp' = 0
                   /\ stack'[0] = DDiv(DZero(0), Popped(0))
        /\ (At(OP_DOT) /\ sp = -1) =>
              IF next_vector_index >= 1
              THEN /\ phase' = "running" /\ sp' = 0
                   /\ stack'[0] = SumOfProducts(vectors[0].address,
                                                vectors[0].address,
                                                vectors[0].size)
              ELSE phase' = "faulted" /\ sp' = -1 /\ stack' = stack
        /\ (At(OP_DOT) /\ sp = 0 /\ next_vector_index = 0) =>
              (phase' = "faulted" /\ sp' = -1 /\ stack' = stack)
      ]_vars

\* PUSH 0.1; ADD has left 0.0 + 0.1 on the stack and the loop goes on
C11_Witness ==
    /\ code = Push(OneTenth) \o Ins(OP_ADD) \o Ins(OP_PRINT) \o Ins(OP_HALT)
    /\ phase = "running"
    /\ ip = 10
    /\ sp = 0
    /\ stack[0] = OneTenth
    /\ err = <<"Stack underflow">>

\* the step refuses its push: the stack and sp stay, the loop goes on behind
\* the n bytes of the instruction
RefusedPush(n) ==
    /\ stack' = stack
    /\ sp' = sp
    /\ ip' = ip + n
    /\ phase' = "running"
    /\ err' # <<>>
    /\ err'[Len(err')] = "Stack overflow"

\* C12: PUSH, LOAD, RAND and INPUT on a full stack (sp = STACK_SIZE - 1)
\* change neither sp nor any cell, drop the value, consume the operand and
\* leave the loop running at the next instruction
C12_PushOnFullStackIsNoOp ==
    [][ /\ (At(OP_PUSH) /\ sp = STACK_SIZE - 1 /\ ip + 9 <= code_size) =>
              RefusedPush(9)
        /\ (At(OP_LOAD) /\ sp = STACK_SIZE - 1 /\ HasIntOperand
                /\ IntOperand \in 0..(GLOBAL_SIZE - 1)) =>
              RefusedPush(5)
        /\ (At(OP_RAND) /\ sp = STACK_SIZE - 1) => RefusedPush(1)
        /\ (At(OP_INPUT) /\ sp = STACK_SIZE - 1) => RefusedPush(1)
      ]_vars

\* FillThenPush has pushed 7 into the last cell, and RAND has left it there
C12_Witness ==
    /\ code = FillThenPush
    /\ phase = "running"
    /\ ip = 38
    /\ sp = STACK_SIZE - 1
    /\ stack[STACK_SIZE - 1] = DFromInt(7)
    /\ err = <<"Stack overflow">>

\* what main and vm_load_program report when no program gets loaded
LoaderDiagnostics ==
    {<<"Failed to allocate VM memory">>, <<"Cannot open file">>,
     <<"Program too large">>, <<"Failed to read program">>}

\* C13: a process whose VM or program cannot be set up exits with 1 in the
\* step that starts it, before any instruction; every other process has no
\* exit code while it runs and exits with 0 once vm_execute has returned,
\* by HALT, at the end of the code or on a fault
C13_ExitCodeTellsLoadFailureOnly ==
    [][ /\ run' # run =>
              IF err' \in LoaderDiagnostics
              THEN phase' = "exited" /\ exit_code' = 1
              ELSE phase' = "running" /\ exit_code' = -1 /\ code_size' > 0
        /\ (run' = run /\ exit_code' # exit_code) =>
              (exit_code = -1 /\ exit_code' = 0)
        /\ (run' = run /\ phase \in {"halted", "faulted"}
                /\ vars' # vars) =>
              (phase' = "exited" /\ exit_code' = 0)
        /\ (run' = run /\ phase' = "exited" /\ phase # "exited") =>
              phase \in {"halted", "faulted"}
      ]_vars

\* 3 / 0 has stopped the engine, and the process has exited with 0
C13_Witness ==
    /\ code = ThreeByZero
    /\ phase = "exited"
    /\ exit_code = 0
    /\ err = <<"Division by zero">>

\* C14: LOAD_FILE gives every global the value it had when SAVE_FILE ran.
\* SaveStoreLoad saves with globals[0] = 7 and stores 1 before it loads, so
\* a LOAD_FILE that succeeds leaves globals[0] = 7.
C14_LoadFileRestoresGlobals ==
    [][ (code = SaveStoreLoad /\ At(OP_LOAD_FILE) /\ Complete(dump)
            /\ err' = <<>>) =>
           (globals'[0] = DFromInt(7))
      ]_vars

\* C15: the value RAND pushes is at least 0 and less than 1, whatever rand()
\* returned in 0..RAND_MAX
C15_RandIsBelowOne ==
    [][ (At(OP_RAND) /\ sp < STACK_SIZE - 1) =>
           (/\ ~DLt(stack'[sp + 1], DZero(0))
            /\ DLt(stack'[sp + 1], One))
      ]_vars

\* the step replaces the two top values a (beneath) and b (top) by what op
\* makes of them and leaves the cells below alone
ReplacesTopTwo(op) ==
    /\ sp' = sp - 1
    /\ stack'[sp - 1] = Result(op, stack[sp - 1], stack[sp])
    /\ \A i \in 0..(sp - 2) : stack'[i] = stack[i]
    /\ ip' = ip + 1
    /\ phase' = "running"

\* PUSH 0.1; PUSH 0.2; op; PRINT; HALT
TenthAndFifth(op) ==
    Push(OneTenth) \o Push(TwoTenths) \o Ins(op) \o Ins(OP_PRINT) \o Ins(OP_HALT)

\* 0.1 + 0.2, 0.1 - 0.2, 0.1 * 0.2 and 3 / 4 in binary64
ThreeTenthsAndABit == [s |-> 0, e |-> 1021, f |-> <<4916, 6553, 3276, 1638>>]
MinusOneTenth == [s |-> 1, e |-> 1019, f |-> <<6554, 3276, 1638, 4915>>]
TwoHundredthsAndABit == [s |-> 0, e |-> 1017, f |-> <<5244, 7536, 6225, 2293>>]
ThreeQuarters == [s |-> 0, e |-> 1022, f |-> <<0, 0, 0, 4096>>]

\* the third instruction of the program has just run on two values
AfterThird(program) ==
    code' = program /\ ip' = 19 /\ ip = 18 /\ sp = 1 /\ phase' = "running"

\* C16: with two values or more on the stack, ADD, SUB, MUL, GT, LT, and DIV
\* when the top is not zero, replace a (beneath) and b (top) by a + b,
\* a - b, a * b, the flag of a > b, the flag of a < b, a / b; sp goes down by
\* one and the cells below stay; PUSH 0.1; PUSH 0.2; ADD leaves the binary64
\* sum 0.30000000000000004 on top, and likewise for the other operations
C16_BinaryReplacesTopTwo ==
    [][ /\ \A op \in {OP_ADD, OP_SUB, OP_MUL, OP_GT, OP_LT} :
              (At(op) /\ sp >= 1) => ReplacesTopTwo(op)
        /\ (At(OP_DIV) /\ sp >= 1 /\ ~DEq(stack[sp], DZero(0))) =>
              ReplacesTopTwo(OP_DIV)
        /\ AfterThird(TenthAndFifth(OP_ADD)) => (stack'[0] = ThreeTenthsAndABit)
        /\ AfterThird(TenthAndFifth(OP_SUB)) => (stack'[0] = MinusOneTenth)
        /\ AfterThird(TenthAndFifth(OP_MUL)) =>
              (stack'[0] = TwoHundredthsAndABit)
        /\ AfterThird(TenthAndFifth(OP_GT)) => (stack'[0] = DZero(0))
        /\ AfterThird(TenthAndFifth(OP_LT)) => (stack'[0] = One)
        /\ AfterThird(PushInt(3) \o Push(DFromInt(4)) \o Ins(OP_DIV)
                          \o Ins(OP_PRINT)) =>
              (stack'[0] = ThreeQuarters)
      ]_vars

\* PUSH 0.1; PUSH 0.2; SUB has left -0.1
C16_Witness ==
    /\ code = TenthAndFifth(OP_SUB)
    /\ phase = "running"
    /\ ip = 19
    /\ sp = 0
    /\ stack[0] = MinusOneTenth
    /\ stack[1] = TwoTenths
    /\ err = <<>>

\* what PRINT has written: standard output without the prompts of INPUT
IsPrinted(line) == line # "? "
Printed(o) == SelectSeq(o, IsPrinted)

\* C17: PRINT with a value on the stack writes the top value and pops it;
\* PRINT on an empty stack writes nothing, leaves sp at -1 and the loop
\* goes on; no other instruction adds a value to the output, so the values
\* on the output are, in order, the tops the PRINTs found: PrintThrice
\* writes 0.2, then 0.1, and nothing for its third PRINT
C17_PrintWritesTopAndPops ==
    [][ /\ (At(OP_PRINT) /\ sp >= 0) =>
              (/\ out' = Append(out, Format15g(stack[sp]))
               /\ sp' = sp - 1
               /\ stack' = stack
               /\ ip' = ip + 1
               /\ phase' = "running")
        /\ (At(OP_PRINT) /\ sp = -1) =>
              (/\ out' = out
               /\ sp' = -1
               /\ ip' = ip + 1
               /\ phase' = "running")
        /\ (run' = run /\ ~At(OP_PRINT)) => (Printed(out') = Printed(out))
        /\ (run' # run) => (out' = <<>>)
        /\ (code' = PrintThrice /\ phase' = "halted") => (out' = <<"0.2", "0.1">>)
      ]_vars

\* PrintThrice has halted behind its third PRINT
C17_Witness ==
    /\ code = PrintThrice
    /\ phase = "halted"
    /\ ip = 22
    /\ sp = -1
    /\ out = <<"0.2", "0.1">>

\* C18: a new VM has 0.0 in every global; LOAD i pushes globals[i]; STORE i
\* pops v into globals[i] and changes no other global; nothing but a STORE
\* changes a global, so a LOAD i finds 0.0 before the first STORE i and
\* afterwards the value of the last one; a STORE whose index is outside
\* 0 .. GLOBAL_SIZE - 1 stops the engine with the stack, sp and the globals
\* as they were.  StoreLoadLoad prints the 0 of global 6, then the 7 of
\* global 5.
C18_GlobalsHoldLastStore ==
    [][ /\ (run' # run /\ phase' = "running") =>
              (globals' = [i \in 0..(GLOBAL_SIZE - 1) |-> DZero(0)])
        /\ (At(OP_LOAD) /\ HasIntOperand /\ ~BadIndex(IntOperand)
                /\ sp < STACK_SIZE - 1) =>
              (/\ sp' = sp + 1
               /\ stack' = [stack EXCEPT ![sp + 1] = globals[IntOperand]]
               /\ globals' = globals
               /\ phase' = "running")
        /\ (At(OP_STORE) /\ HasIntOperand /\ ~BadIndex(IntOperand)
                /\ sp >= 0) =>
              (/\ sp' = sp - 1
               /\ globals' = [globals EXCEPT ![IntOperand] = stack[sp]]
               /\ stack' = stack
               /\ phase' = "running")
        /\ (At(OP_STORE) /\ HasIntOperand /\ BadIndex(IntOperand)) =>
              (/\ phase' = "faulted"
               /\ sp' = sp
               /\ stack' = stack
               /\ globals' = globals)
        /\ (run' = run /\ ~At(OP_STORE)) => (globals' = globals)
        /\ (code' = StoreLoadLoad /\ phase' = "halted") => (out' = <<"0", "7">>)
      ]_vars

\* PUSH 7; STORE -1 has stopped the engine with the 7 still on the stack
C18_Witness ==
    /\ code = PushInt(7) \o InsInt(OP_STORE, -1) \o PushInt(1) \o Ins(OP_PRINT)
              \o Ins(OP_PRINT)
    /\ phase = "faulted"
    /\ sp = 0
    /\ stack[0] = DFromInt(7)
    /\ err = <<"Invalid variable index">>

\* SkipIfFalse(c, 9) has run to its end and has written o
Wrote(c, o) == (code' = SkipIfFalse(c, 9) /\ phase' = "halted") => (out' = o)

\* C19: JUMP_IF_FALSE with a value on the stack pops it, jump or no jump;
\* it adds its offset to the ip behind its operand when the value equals
\* 0.0, and goes on behind its operand for every other value, the negative
\* ones too; on an empty stack it jumps.  SkipIfFalse(c, 9) jumps over
\* PUSH 1 for 0.0 and -0.0 and writes 2; for 1, -1 and a NaN it writes 2
\* and 1.
C19_JumpIfFalsePopsAndTestsZero ==
    [][ /\ (At(OP_JUMP_IF_FALSE) /\ HasIntOperand /\ sp >= 0) =>
              (sp' = sp - 1 /\ stack' = stack)
        /\ (At(OP_JUMP_IF_FALSE) /\ HasIntOperand /\ sp >= 0
                /\ ~DEq(stack[sp], DZero(0))) =>
              (ip' = ip + 5 /\ phase' = "running")
        /\ (At(OP_JUMP_IF_FALSE) /\ HasIntOperand /\ sp >= 0
                /\ DEq(stack[sp], DZero(0))
                /\ ~Overflows(ip + 5, IntOperand)) =>
              (ip' = ip + 5 + IntOperand /\ phase' = "running")
        /\ (At(OP_JUMP_IF_FALSE) /\ HasIntOperand /\ sp = -1
                /\ ~Overflows(ip + 5, IntOperand)) =>
              (ip' = ip + 5 + IntOperand /\ sp' = -1 /\ phase' = "running")
        /\ Wrote(DZero(0), <<"2">>)
        /\ Wrote(DZero(1), <<"2">>)
        /\ Wrote(DFromInt(1), <<"2", "1">>)
        /\ Wrote(DFromInt(-1), <<"2", "1">>)
        /\ Wrote(DefaultNaN, <<"2", "1">>)
      ]_vars

\* PUSH -1; JUMP_IF_FALSE 9 has popped the -1 and has not jumped
C19_Witness ==
    /\ code = SkipIfFalse(DFromInt(-1), 9)
    /\ phase = "running"
    /\ ip = 14
    /\ sp = -1
    /\ stack[0] = DFromInt(-1)
    /\ err = <<>>

C21_FetchWithinCode == (phase = "running" /\ ip < code_size) => (0 <= ip)

\* the instruction about to run is a jump with a negative offset
BackwardJump ==
    /\ At(OP_JUMP) \/ At(OP_JUMP_IF_FALSE)
    /\ HasIntOperand
    /\ IntOperand < 0

\* C22: every instruction fetched inside the code leaves ip greater than it
\* found it, unless it is a JUMP or JUMP_IF_FALSE with a negative offset; a
\* program without such a jump therefore runs at most code_size instructions
C22_IpMovesBackOnlyByNegativeJump ==
    [][ (phase = "running" /\ 0 <= ip /\ ip < code_size /\ ~BackwardJump) =>
           (ip' > ip)
      ]_vars

\* PUSH 1; PUSH 2; VECTOR 3; PRINT
VectorOfThreeFromTwo ==
    PushInt(1) \o PushInt(2) \o InsInt(OP_VECTOR, 3) \o Ins(OP_PRINT)

\* the VECTOR about to run has a size that is no size, or that the memory
\* left or the vector table has no room for
NoRoom ==
    \/ ~HasIntOperand
    \/ IntOperand <= 0
    \/ next_memory_address + IntOperand > MEMORY_SIZE
    \/ next_vector_index >= MAX_VECTORS

\* C23: a VECTOR with n <= 0, with n beyond the memory left, with a full
\* table or with fewer than n values on the stack stops the engine, and a
\* VECTOR that stops the engine has allocated nothing: both cursors, the
\* vector table and the memory below next_memory_address are as before and
\* no reference is on the stack; unless it is values that were missing,
\* the stack and sp are as before too
C23_FaultedVectorAllocatesNothing ==
    [][ /\ (At(OP_VECTOR) /\ (NoRoom \/ sp + 1 < IntOperand)) =>
              (phase' = "faulted")
        /\ (At(OP_VECTOR) /\ phase' = "faulted") =>
              (/\ next_memory_address' = next_memory_address
               /\ next_vector_index' = next_vector_index
               /\ vectors' = vectors
               /\ \A a \in 0..(next_memory_address - 1) :
                     memory'[a] = memory[a]
               /\ stack' = stack
               /\ sp' <= sp)
        /\ (At(OP_VECTOR) /\ NoRoom) => (sp' = sp /\ memory' = memory)
      ]_vars

\* VECTOR 3 has found two values: it has moved them to the memory that is
\* still free and has stopped the engine with nothing allocated
C23_Witness ==
    /\ code = VectorOfThreeFromTwo
    /\ phase = "faulted"
    /\ sp = -1
    /\ next_memory_address = 0
    /\ next_vector_index = 0
    /\ vectors[0] = ZeroVector
    /\ memory[2] = DFromInt(2)
    /\ err = <<"Not enough values on stack for vector">>

=============================================================================
